---- MODULE Spec2Model ----
(***************************************************************************)
(* Drone motion simulation and control loop of the mission-control        *)
(* dashboard (src/src/pages/Dashboard.tsx).                                *)
(*                                                                         *)
(* Numbers.  The code computes in IEEE doubles; the model computes in      *)
(* fixed point and rounds every operation that leaves the grid to the      *)
(* nearest grid value, as a double operation rounds to the nearest double. *)
(*   velocity, acceleration : 1 unit = 1e-8 degree                         *)
(*   position, margin       : 1 unit = 1e-9 degree  (PosPerVel per unit)   *)
(*   angles                 : 1 unit = 1 degree (yaw is carried in         *)
(*                            degrees; the code carries radians)           *)
(*   time                   : 1 unit = 1/60 s, so scale = dt * 60 is dt    *)
(*   sin, cos               : TrigScale-ths                                *)
(*   displayed speed        : millimetres per second                       *)
(***************************************************************************)
EXTENDS Integers, FiniteSets, Sequences, TLC

VARIABLES
    mounted,          \* the Dashboard component is mounted
    mode,             \* useState mode: "auto" | "manual"
    keys,             \* keys.current: [up, down, left, right -> BOOLEAN]
    listenerMode,     \* mode captured by the attached key listeners, "none" when detached
    lastDefault,      \* default action of the last keyboard event dispatched:
                      \* "prevented" | "allowed", "none" before the first one
    bounds,           \* operating envelope [minLng, minLat, maxLng, maxLat]
    center,           \* centre of the envelope [longitude, latitude]
    drone,            \* useState drone: the published sample
    speedMps,         \* useState speedMps: the published speed
    loops,            \* live loop instances: instance id -> closure locals
    pending,          \* animation-frame callbacks requested and not yet run or cancelled
    effect,           \* instance whose cleanup React holds (0: none)
    pre,              \* values of the last tick right after the position update
    ticks,            \* number of ticks run so far
    now,              \* Date.now() as the next reader will see it
    plannerOpen,      \* MissionPlanner is mounted
    waypoints,        \* MissionPlanner's waypoints state
    stored,           \* localStorage item 'mission_waypoints'
    editingWaypoint,  \* MissionPlanner's editingWaypoint state
    editingName,      \* MissionPlanner's editingName state
    logs,             \* OperationalLog's logs state
    comment,          \* OperationalLog's comment state
    leftWith,         \* the waypoint list on screen when the planner was last left
    logging,          \* the Dashboard is the revision that keeps a physics log
    physicsLogs,      \* useState physicsLogs
    wasMoving,        \* wasMoving of the running loop instance
    logCount,         \* physics log entries created so far (their ids are distinct)
    renderDue,        \* the Dashboard has a state update that is not rendered yet
    effectProps,      \* MapView: the props of a committed render whose effects have not run
    logTimeouts,      \* MapView: logTimeoutsRef.current
    timers,           \* timers set by MapView and not yet fired or cleared
    fadingLogs,       \* MapView: useState fadingLogs
    timerPairs,       \* history: the pairs of timers created
    fired,            \* history: the timers that fired, in order
    droneTrace,       \* MapView: useState droneTrace
    hookMounted,      \* the component that uses useLocalStorage is mounted
    storedValue,      \* useLocalStorage: useState storedValue, as last rendered
    queued,           \* useLocalStorage: the state update that is not rendered yet
    valueRef,         \* useLocalStorage: valueRef.current
    debounceTimer,    \* useLocalStorage: debounceTimerRef.current and its timer
    storageItem,      \* localStorage[key]
    lastSet           \* history: the last call of setValue

pagesVars == <<now, plannerOpen, waypoints, stored, editingWaypoint,
               editingName, logs, comment, leftWith>>

physVars == <<logging, physicsLogs, wasMoving, logCount>>

dashVars == <<mounted, mode, keys, listenerMode, lastDefault, bounds, center,
              drone, speedMps, loops, pending, effect, pre, ticks, physVars>>

viewVars == <<renderDue, effectProps, logTimeouts, timers, fadingLogs, timerPairs,
              fired, droneTrace>>

hookVars == <<hookMounted, storedValue, queued, valueRef, debounceTimer,
              storageItem, lastSet>>

otherVars == <<viewVars, hookVars>>

vars == <<dashVars, pagesVars, otherVars>>

-----------------------------------------------------------------------------
(* Program constants, in model units.                                      *)

MAX_SPEED == 2000
ACCELERATION == 6000
DragNum == 9
DragDen == 10
YAW_RATE_DEG_PER_FRAME == 2
AutoSpeedMultNum == 8
AutoSpeedMultDen == 10
AutoSpeedCorrNum == 1
AutoSpeedCorrDen == 2
BOUNDARY_MARGIN == 1
MAX_DELTA_TIME == 3
FPS_BASELINE == 60
METERS_PER_DEG_LAT == 111320
InitialHeadingDegrees == 45
MAX_LOG_ENTRIES == 50

\* Time units per second: one unit is one frame at the 60 fps baseline.
TimeUnitsPerSec == FPS_BASELINE

\* Position units per velocity unit (1e-8 degree / 1e-9 degree).
PosPerVel == 10

\* Denominator of the sine table.
TrigScale == 10000

\* Velocity units per degree (1e8) over millimetres per metre (1e3).
VelUnitsPerDegPerMm == 100000

\* Position units per degree.
PosUnitsPerDeg == 1000000000

-----------------------------------------------------------------------------
(* Bounds of the model.                                                    *)

MaxTicks == 2          \* ticks explored by Spec
MaxStepTicks == 2      \* ticks explored by SpecStep from each restart state
MaxCruiseTicks == 200  \* ticks explored by SpecCruise
MaxYawTicks == 70      \* ticks explored by SpecYaw
MaxGap == 4            \* largest gap between frame timestamps, time units
MaxEarly == 1          \* most a first frame's timestamp precedes the clock read, time units
EnvHalfLng == 12000    \* half width of the envelope, position units
EnvHalfLat == 26000    \* half height of the envelope, position units
CruiseHalf == 2000000  \* half width and height of SpecCruise's envelope
EnvLatDeg == 50        \* latitude of the envelope, whole degrees
MaxSymN == 8           \* longest forward phase explored by SpecSym, ticks

\* Mission Planner: map clicks per behaviour, waypoints on the map at once.
MaxClicks == 3
MaxWaypoints == 2

\* Longest text typed into an input.
MaxTextLen == 2

\* Operational log: comments submitted per behaviour.
MaxSubmits == 52

\* Ticks of the behaviours in which a key is released during auto.
MaxStuckTicks == 3

\* Ticks of an auto instance explored by SpecAuto.
MaxAutoTicks == 2

\* Ticks of an instance started on the north edge, explored by SpecNorth.
MaxNorthTicks == 2

\* Ticks after which SpecLive stops following the loop.
MaxLiveTicks == 6
HeadingStride == 30    \* SpecStep starts from every HeadingStride-th heading

-----------------------------------------------------------------------------
(* Arithmetic.                                                             *)

Abs(x) == IF x < 0 THEN -x ELSE x

Min(a, b) == IF a < b THEN a ELSE b

Max(a, b) == IF a > b THEN a ELSE b

\* a / b rounded to the nearest integer, halves away from zero (b > 0).
RoundNat(a, b) == IF 2 * (a % b) >= b THEN (a \div b) + 1 ELSE a \div b

Round(a, b) == IF a >= 0 THEN RoundNat(a, b) ELSE -RoundNat(-a, b)

RECURSIVE SqrtSearch(_, _, _)
SqrtSearch(n, lo, hi) ==
    IF lo >= hi THEN lo
    ELSE LET mid == (lo + hi + 1) \div 2
         IN  IF mid * mid <= n THEN SqrtSearch(n, mid, hi)
             ELSE SqrtSearch(n, lo, mid - 1)

\* r or r + 1, whichever is nearer the square root of n (r its integer part).
NearestRoot(n, r) == IF n - r * r > r THEN r + 1 ELSE r

\* Square root rounded to the nearest integer.
Sqrt(n) == NearestRoot(n, SqrtSearch(n, 0, 46340))

\* Math.hypot
Hypot(x, y) == Sqrt(x * x + y * y)

\* JavaScript's %: the remainder takes the sign of the dividend.
JsMod(a, n) == IF a >= 0 THEN a % n ELSE -((-a) % n)

SinTab ==
    << 0, 175, 349, 523, 698, 872, 1045, 1219, 1392, 1564, 1736, 1908, 2079,
       2250, 2419, 2588, 2756, 2924, 3090, 3256, 3420, 3584, 3746, 3907, 4067, 4226,
       4384, 4540, 4695, 4848, 5000, 5150, 5299, 5446, 5592, 5736, 5878, 6018, 6157,
       6293, 6428, 6561, 6691, 6820, 6947, 7071, 7193, 7314, 7431, 7547, 7660, 7771,
       7880, 7986, 8090, 8192, 8290, 8387, 8480, 8572, 8660, 8746, 8829, 8910, 8988,
       9063, 9135, 9205, 9272, 9336, 9397, 9455, 9511, 9563, 9613, 9659, 9703, 9744,
       9781, 9816, 9848, 9877, 9903, 9925, 9945, 9962, 9976, 9986, 9994, 9998, 10000 >>

\* Math.sin of an angle in whole degrees, in TrigScale-ths.
SinDeg(d) ==
    LET m == d % 360
    IN  IF m <= 90 THEN SinTab[m + 1]
        ELSE IF m <= 180 THEN SinTab[180 - m + 1]
        ELSE IF m <= 270 THEN -SinTab[m - 180 + 1]
        ELSE -SinTab[360 - m + 1]

\* Math.cos of an angle in whole degrees, in TrigScale-ths.
CosDeg(d) == SinDeg(d + 90)

\* The angle in 0..45 whose tangent is nearest a / b (0 <= a <= b, b > 0):
\* b sin(th) - a cos(th) grows with th and changes sign at the exact angle.
AtanError(a, b, th) == b * SinDeg(th) - a * CosDeg(th)

AtanNearest(a, b, below) ==
    IF below < 45 /\ AtanError(a, b, below + 1) < -AtanError(a, b, below)
    THEN below + 1 ELSE below

AtanOctant(a, b) ==
    AtanNearest(a, b, Cardinality({th \in 0..45 : AtanError(a, b, th) <= 0}) - 1)

\* Math.atan2(x, y) in whole degrees, in -180..180: the bearing of (x, y),
\* 0 along +y (north), 90 along +x (east).
Atan2Deg(x, y) ==
    LET a == Abs(x)
        b == Abs(y)
        base == IF a = 0 /\ b = 0 THEN 0
                ELSE IF a <= b THEN AtanOctant(a, b)
                ELSE 90 - AtanOctant(b, a)
    IN  IF x >= 0 THEN (IF y >= 0 THEN base ELSE 180 - base)
        ELSE (IF y >= 0 THEN -base ELSE base - 180)

-----------------------------------------------------------------------------
(* The loop body, Dashboard.tsx lines 88-156, as operators.                *)

\* dt = Math.min(MAX_DELTA_TIME, (t - last) / 1000), in time units
DeltaTime(gap) == Min(MAX_DELTA_TIME, gap)

\* scale = dt * FPS_BASELINE
Scale(dt) == (dt * FPS_BASELINE) \div TimeUnitsPerSec

\* The control flags a tick reads: keys.current at the time of the tick.
ReadKeys == keys

\* Yaw update: only in manual, left subtracts and right adds the yaw rate.
YawUpdate(m, yaw, k, scale) ==
    IF m = "manual"
    THEN LET y1 == IF k.left THEN yaw - YAW_RATE_DEG_PER_FRAME * scale ELSE yaw
         IN  IF k.right THEN y1 + YAW_RATE_DEG_PER_FRAME * scale ELSE y1
    ELSE yaw

ManualThrust(k) ==
    LET t1 == IF k.up THEN ACCELERATION ELSE 0
    IN  IF k.down THEN t1 - ACCELERATION ELSE t1

\* Variant: full thrust whatever the speed.
FullThrust(velX, velY) == ACCELERATION

\* Proportional controller toward the cruise speed, clamped to +-ACCELERATION.
AutoThrust(velX, velY) ==
    LET desiredSpeed == Round(MAX_SPEED * AutoSpeedMultNum, AutoSpeedMultDen)
        currentSpeed == Hypot(velX, velY)
        speedError == desiredSpeed - currentSpeed
    IN  Max(-ACCELERATION,
            Min(ACCELERATION, Round(speedError * AutoSpeedCorrNum, AutoSpeedCorrDen)))

\* Variant: thrust from the control flags in either mode.
ThrustByFlags(m, k, velX, velY) == ManualThrust(k)

Thrust(m, k, velX, velY) ==
    IF m = "manual" THEN ManualThrust(k) ELSE AutoThrust(velX, velY)

\* vel = (vel + trig(yaw) * thrust * scale) * DRAG
Accelerate(vel, trig, thrust, scale) ==
    Round((vel + Round(trig * thrust, TrigScale) * scale) * DragNum, DragDen)

\* if (speed > MAX_SPEED) { s = MAX_SPEED / speed; velX *= s; velY *= s }
\* Variant: no rescale.
NoRescale(v, speed) == v

Rescale(v, speed) ==
    IF speed > MAX_SPEED
    THEN [velX |-> Round(v.velX * MAX_SPEED, speed),
          velY |-> Round(v.velY * MAX_SPEED, speed)]
    ELSE v

\* Variant: no speed clamp.
NoSpeedClamp(v) == v

SpeedClamp(v) == Rescale(v, Hypot(v.velX, v.velY))

\* Acceleration and drag on both axes, then the speed clamp.
VelocityUpdate(L, yaw, thrust, scale) ==
    SpeedClamp([velX |-> Accelerate(L.velX, SinDeg(yaw), thrust, scale),
                velY |-> Accelerate(L.velY, CosDeg(yaw), thrust, scale)])

\* posLng += velX; posLat += velY
PositionUpdate(L, yaw, v) ==
    [posLng |-> L.posLng + v.velX * PosPerVel,
     posLat |-> L.posLat + v.velY * PosPerVel,
     yaw |-> yaw, velX |-> v.velX, velY |-> v.velY]

Thrusted(L, k, scale, yaw) ==
    PositionUpdate(L, yaw,
                   VelocityUpdate(L, yaw, Thrust(L.mode, k, L.velX, L.velY), scale))

\* Integrator: yaw, thrust, acceleration, drag, speed clamp, position update.
Integrate(L, k, scale) == Thrusted(L, k, scale, YawUpdate(L.mode, L.yaw, k, scale))

\* Latitude in whole degrees, for Math.cos(posLat * Math.PI / 180).
LatDeg(posLat) == EnvLatDeg + Round(posLat, PosUnitsPerDeg)

\* Variant: the division without the dt > 0 guard (a zero divisor read as 1).
UnguardedSpeed(s, dt) ==
    Round(Hypot(Round(s.velX * Round(METERS_PER_DEG_LAT * CosDeg(LatDeg(s.posLat)),
                                     TrigScale), VelUnitsPerDegPerMm),
                Round(s.velY * METERS_PER_DEG_LAT, VelUnitsPerDegPerMm))
            * TimeUnitsPerSec * (IF dt < 0 THEN -1 ELSE 1),
          IF dt = 0 THEN 1 ELSE Abs(dt))

\* instSpeed = dt > 0 ? Math.hypot(dxMeters, dyMeters) / dt : 0, in mm/s
InstSpeed(s, dt) ==
    LET metersPerDegLat == METERS_PER_DEG_LAT
        metersPerDegLon == Round(METERS_PER_DEG_LAT * CosDeg(LatDeg(s.posLat)), TrigScale)
        dxMm == Round(s.velX * metersPerDegLon, VelUnitsPerDegPerMm)
        dyMm == Round(s.velY * metersPerDegLat, VelUnitsPerDegPerMm)
    IN  IF dt > 0 THEN Round(Hypot(dxMm, dyMm) * TimeUnitsPerSec, dt) ELSE 0

\* Variant: a west edge that does not reflect.
NoBounceWest(b, s) == s

\* Variant: a north edge that does not reflect.
NoBounceNorth(b, s) == s

\* The four edge checks of auto mode, in the order west, east, south, north.
BounceWest(b, s) ==
    IF s.posLng <= b.minLng + BOUNDARY_MARGIN /\ s.velX < 0
    THEN [s EXCEPT !.velX = -s.velX, !.yaw = Atan2Deg(-s.velX, s.velY)]
    ELSE s

BounceEast(b, s) ==
    IF s.posLng >= b.maxLng - BOUNDARY_MARGIN /\ s.velX > 0
    THEN [s EXCEPT !.velX = -s.velX, !.yaw = Atan2Deg(-s.velX, s.velY)]
    ELSE s

BounceSouth(b, s) ==
    IF s.posLat <= b.minLat + BOUNDARY_MARGIN /\ s.velY < 0
    THEN [s EXCEPT !.velY = -s.velY, !.yaw = Atan2Deg(s.velX, -s.velY)]
    ELSE s

BounceNorth(b, s) ==
    IF s.posLat >= b.maxLat - BOUNDARY_MARGIN /\ s.velY > 0
    THEN [s EXCEPT !.velY = -s.velY, !.yaw = Atan2Deg(s.velX, -s.velY)]
    ELSE s

\* Variant: no final clamp.
NoClampPosition(b, s) == s

\* Math.min(max, Math.max(min, pos)) on both axes.
ClampPosition(b, s) ==
    [s EXCEPT !.posLng = Min(b.maxLng, Max(b.minLng, s.posLng)),
              !.posLat = Min(b.maxLat, Max(b.minLat, s.posLat))]

\* Variant: bounce in either mode.
BounceInAnyMode(m, b, s) ==
    ClampPosition(b, BounceNorth(b, BounceSouth(b, BounceEast(b, BounceWest(b, s)))))

\* Bounce on bounds in auto; clamp in manual.
BoundaryPolicy(m, b, s) ==
    IF m = "auto"
    THEN ClampPosition(b, BounceNorth(b, BounceSouth(b, BounceEast(b, BounceWest(b, s)))))
    ELSE ClampPosition(b, s)

\* headingDegrees: ((yaw * 180) / Math.PI + 360) % 360
HeadingDegrees(yaw) == JsMod(yaw + 360, 360)

\* The sample setDrone publishes.
Sample(s) ==
    [longitude |-> s.posLng, latitude |-> s.posLat,
     headingDegrees |-> HeadingDegrees(s.yaw)]

-----------------------------------------------------------------------------
(* Animation frames and loop instances.                                    *)

\* Handles and instance ids are only compared for equality: a fresh one is
\* the least id not in use.
Fresh(used) ==
    CHOOSE h \in 1..(Cardinality(used) + 1) :
        h \notin used /\ \A g \in 1..(h - 1) : g \in used

\* requestAnimationFrame(loop) by instance i: a handle no pending callback
\* and no other live closure holds.
RequestHandle(pend, lps, i) ==
    Fresh({p.id : p \in pend} \cup {lps[j].raf : j \in (DOMAIN lps) \ {i}})

\* cancelAnimationFrame(h)
CancelAnimationFrame(pend, h) == {p \in pend : p.id # h}

\* The closures that can still run: those with a pending callback.
Live(lps, pend) ==
    LET alive == {j \in DOMAIN lps : \E p \in pend : p.inst = j}
    IN  [j \in alive |-> lps[j]]

\* Variant: an instance created with a frame timestamp already in last and
\* a velocity of one unit north.
ResumeLoop(m, d, h) ==
    [mode |-> m, posLng |-> d.longitude, posLat |-> d.latitude,
     yaw |-> d.headingDegrees, velX |-> 0, velY |-> 1, raf |-> h,
     last |-> "frame"]

\* The locals of a loop instance as the physics effect creates them.
\* last is "created" while it holds the performance.now() read when the
\* instance was created, "frame" once it holds a frame's timestamp.
StartLoop(m, d, h) ==
    [mode |-> m, posLng |-> d.longitude, posLat |-> d.latitude,
     yaw |-> d.headingDegrees, velX |-> 0, velY |-> 0, raf |-> h,
     last |-> "created"]

\* calculateMapBounds: the bounding box and its centre.
CalculateMapBounds(box) ==
    [bounds |-> [minLng |-> box[1], minLat |-> box[2],
                 maxLng |-> box[3], maxLat |-> box[4]],
     center |-> [longitude |-> Round(box[1] + box[3], 2),
                 latitude |-> Round(box[2] + box[4], 2)]]

\* The values the hook stores are numbered; 0 is initialValue.
InitialValue == 0

\* No state update of the hook is waiting for a render.
NoUpdate == [pending |-> FALSE, value |-> InitialValue]

\* debounceTimerRef.current === null
NoTimer == [set |-> FALSE, live |-> FALSE, value |-> InitialValue, due |-> 0]

\* No render is waiting for its effects.
NoProps == [pending |-> FALSE, physicsLogs |-> <<>>]

NoKeys == [up |-> FALSE, down |-> FALSE, left |-> FALSE, right |-> FALSE]

NoPre ==
    [posLng |-> 0, posLat |-> 0, yaw |-> 0, velX |-> 0, velY |-> 0,
     mode |-> "none", inst |-> 0, dt |-> 0]

\* localStorage.getItem of a key that was never written.
NoItem == [present |-> FALSE, text |-> <<>>]

\* editingWaypoint's initial value (null).
NoEdit == "null"

\* Both pages before their first visit on a fresh origin: nothing stored,
\* every useState at its initial value.
PagesClosed ==
    /\ now = 0
    /\ plannerOpen = FALSE
    /\ waypoints = <<>>
    /\ stored = NoItem
    /\ editingWaypoint = NoEdit
    /\ editingName = <<>>
    /\ logs = <<>>
    /\ comment = <<>>
    /\ leftWith = <<>>

-----------------------------------------------------------------------------
(* The physics log of the Dashboard revision that keeps one.  An entry is  *)
(* { id, type, message, timestamp }; ids are distinct, and the timestamp   *)
(* is the reading of Date.now() when the entry is made.                    *)

\* isMoving = speed > 0.000001, in velocity units.
MovingThreshold == 100

\* The entries of one handler run, numbered from logCount in call order.
Entries(items) ==
    [i \in 1..Len(items) |->
        [id |-> logCount + i, type |-> items[i][1], message |-> items[i][2],
         timestamp |-> now]]

\* Variant: a log that keeps only the entries of the latest handler run.
AddPhysicsLogsReplacing(items) ==
    /\ physicsLogs' = Entries(items)
    /\ logCount' = logCount + Len(items)

\* addPhysicsLogRef.current(type, message) for each item:
\* setPhysicsLogs(prev => [...prev, log])
AddPhysicsLogs(items) ==
    /\ physicsLogs' = physicsLogs \o Entries(items)
    /\ logCount' = logCount + Len(items)

\* The velocity after acceleration and drag, before the speed clamp.
RawSpeed(L, dt, s1) ==
    LET thrust == Thrust(L.mode, ReadKeys, L.velX, L.velY)
    IN  Hypot(Accelerate(L.velX, SinDeg(s1.yaw), thrust, Scale(dt)),
              Accelerate(L.velY, CosDeg(s1.yaw), thrust, Scale(dt)))

MovingItems(isMoving, was) ==
    IF isMoving /\ ~was THEN <<(<<"started_moving", <<"Drone started moving">> >>)>>
    ELSE IF ~isMoving /\ was THEN <<(<<"stopped", <<"Drone stopped">> >>)>>
    ELSE <<>>

MaxSpeedItems(speed) ==
    IF speed > MAX_SPEED THEN <<(<<"max_speed", <<"Drone reached max speed limit">> >>)>> ELSE <<>>

\* bounceDirection: the last of the four edge tests that matched.
BounceDirection(b, s) ==
    LET w == BounceWest(b, s)
        e == BounceEast(b, w)
        so == BounceSouth(b, e)
        n == BounceNorth(b, so)
    IN  IF n # so THEN "north"
        ELSE IF so # e THEN "south"
        ELSE IF e # w THEN "east"
        ELSE IF w # s THEN "west"
        ELSE ""

BounceItems(m, b, s) ==
    IF m = "auto" /\ BounceDirection(b, s) # ""
    THEN <<(<<"bounce", <<"Drone bounced", BounceDirection(b, s)>> >>)>>
    ELSE <<>>

TickItems(L, speed, s1) ==
    MovingItems(speed > MovingThreshold, wasMoving) \o MaxSpeedItems(speed)
        \o BounceItems(L.mode, bounds, s1)

\* The log calls of one run of loop(t), in the order the loop makes them.
TickLog(L, dt, s1, s2) ==
    IF logging
    THEN LET speed == RawSpeed(L, dt, s1)
         IN  /\ AddPhysicsLogs(TickItems(L, speed, s1))
             /\ wasMoving' = (speed > MovingThreshold)
             /\ UNCHANGED logging
    ELSE UNCHANGED physVars

StopItem == <<"stop", <<"Drone simulation stopped">> >>

StartItem(m) == <<"start", <<"Drone simulation started", m>> >>

ModeChangeItem(old, m) == <<"mode_change", <<"Mode changed", old, m>> >>

\* Variant: the new instance logs its start before the old one's cleanup.
StartBeforeStop(old, m) == <<StartItem(m), StopItem, ModeChangeItem(old, m)>>

\* A render with a new mode: the physics effect's cleanup, then its body,
\* then the mode-change effect.
ModeChangeItems(old, m) == <<StopItem, StartItem(m), ModeChangeItem(old, m)>>

\* The new instance starts with wasMoving = false.
ModeChangeLog(old, m) ==
    IF logging
    THEN /\ AddPhysicsLogs(ModeChangeItems(old, m))
         /\ wasMoving' = FALSE
         /\ UNCHANGED logging
    ELSE UNCHANGED physVars

\* Unmount runs the physics effect's cleanup; its setPhysicsLogs is addressed
\* to a component that is being removed, and React drops it.
UnmountLog == UNCHANGED physVars

\* prev.filter(log => log.id !== id)
Removed(log, id) == SelectSeq(log, LAMBDA e : e.id # id)

\* onLogRemove(id): setPhysicsLogs(prev => prev.filter(log => log.id !== id))
OnLogRemove(id) ==
    /\ mounted
    /\ logging
    /\ physicsLogs' = Removed(physicsLogs, id)
    /\ UNCHANGED <<mounted, mode, keys, listenerMode, lastDefault, bounds, center,
                   drone, speedMps, loops, pending, effect, pre, ticks,
                   logging, wasMoving, logCount, pagesVars, otherVars>>

\* No physics log is handed to the map: no timer, no pending effect.
ViewIdle ==
    /\ renderDue = FALSE
    /\ effectProps = NoProps
    /\ logTimeouts = <<>>
    /\ timers = {}
    /\ fadingLogs = {}
    /\ timerPairs = {}
    /\ fired = <<>>
    /\ droneTrace = <<>>

\* useLocalStorage(key, initialValue) after the first render on a fresh
\* origin: nothing stored, no timer, no call of setValue yet.
HookIdle ==
    /\ hookMounted = TRUE
    /\ storedValue = InitialValue
    /\ queued = NoUpdate
    /\ valueRef = InitialValue
    /\ debounceTimer = NoTimer
    /\ storageItem = NoItem
    /\ lastSet = [value |-> InitialValue, at |-> 0, calls |-> 0]

OthersIdle == ViewIdle /\ HookIdle

LogsOff ==
    /\ logging = FALSE
    /\ physicsLogs = <<>>
    /\ wasMoving = FALSE
    /\ logCount = 0

\* The log after the first run of the physics effect in mode m.
LogsOn(m) ==
    /\ logging = TRUE
    /\ physicsLogs = <<[id |-> 1, type |-> StartItem(m)[1], message |-> StartItem(m)[2],
                         timestamp |-> now]>>
    /\ wasMoving = FALSE
    /\ logCount = 1

\* The state in which a loop instance has just been started in mode m from
\* the sample d, with the control flags k.
StartedDash(box, m, k, d) ==
    LET mb == CalculateMapBounds(box)
    IN  /\ mounted = TRUE
        /\ mode = m
        /\ keys = k
        /\ listenerMode = m
        /\ lastDefault = "none"
        /\ bounds = mb.bounds
        /\ center = mb.center
        /\ drone = d
        /\ speedMps = 0
        /\ loops = (1 :> StartLoop(m, d, 1))
        /\ pending = {[id |-> 1, inst |-> 1]}
        /\ effect = 1
        /\ pre = NoPre
        /\ ticks = 0
        /\ PagesClosed

\* The same for the revision of the Dashboard without a physics log
\* (src/pages/Dashboard.tsx).
Started(box, m, k, d) == StartedDash(box, m, k, d) /\ LogsOff /\ OthersIdle

\* The state after the first render and its effects: auto mode, no flag set,
\* the drone at the centre of the envelope heading 45 degrees.
Mounted(box) ==
    LET c == CalculateMapBounds(box).center
    IN  Started(box, "auto", NoKeys,
                [longitude |-> c.longitude, latitude |-> c.latitude,
                 headingDegrees |-> InitialHeadingDegrees])

Init == Mounted(<<-EnvHalfLng, -EnvHalfLat, EnvHalfLng, EnvHalfLat>>)

-----------------------------------------------------------------------------
(* Actions.                                                                *)

\* Variant: a loop run that does not request the next frame.
PublishWithoutFrame(p, dt, s1, s2, h) ==
    /\ pre' = [posLng |-> s1.posLng, posLat |-> s1.posLat, yaw |-> s1.yaw,
               velX |-> s1.velX, velY |-> s1.velY,
               mode |-> loops[p.inst].mode, inst |-> p.inst, dt |-> dt]
    /\ speedMps' = IF mounted THEN InstSpeed(s1, dt) ELSE speedMps
    /\ drone' = IF mounted THEN Sample(s2) ELSE drone
    /\ loops' = [loops EXCEPT ![p.inst] =
                    [mode |-> loops[p.inst].mode,
                     posLng |-> s2.posLng, posLat |-> s2.posLat,
                     yaw |-> s2.yaw, velX |-> s2.velX, velY |-> s2.velY, raf |-> h,
                     last |-> "frame"]]
    /\ pending' = pending \ {p}
    /\ ticks' = ticks + 1
    /\ UNCHANGED <<mounted, mode, keys, listenerMode, lastDefault,
                   bounds, center, effect, pagesVars, otherVars>>
    /\ TickLog(loops[p.inst], dt, s1, s2)

\* The end of loop(t): s1 is the state after the integrator, s2 after the
\* boundary policy; telemetry is taken from s1, the sample from s2, and the
\* next frame is requested under handle h.
Publish(p, dt, s1, s2, h) ==
    /\ pre' = [posLng |-> s1.posLng, posLat |-> s1.posLat, yaw |-> s1.yaw,
               velX |-> s1.velX, velY |-> s1.velY,
               mode |-> loops[p.inst].mode, inst |-> p.inst, dt |-> dt]
    /\ speedMps' = IF mounted THEN InstSpeed(s1, dt) ELSE speedMps
    /\ drone' = IF mounted THEN Sample(s2) ELSE drone
    /\ loops' = [loops EXCEPT ![p.inst] =
                    [mode |-> loops[p.inst].mode,
                     posLng |-> s2.posLng, posLat |-> s2.posLat,
                     yaw |-> s2.yaw, velX |-> s2.velX, velY |-> s2.velY, raf |-> h,
                     last |-> "frame"]]
    /\ pending' = (pending \ {p}) \cup {[id |-> h, inst |-> p.inst]}
    /\ ticks' = ticks + 1
    /\ UNCHANGED <<mounted, mode, keys, listenerMode, lastDefault,
                   bounds, center, effect, pagesVars, otherVars>>
    /\ TickLog(loops[p.inst], dt, s1, s2)

LoopBody(p, dt, s1) ==
    Publish(p, dt, s1, BoundaryPolicy(loops[p.inst].mode, bounds, s1),
            RequestHandle(pending \ {p}, loops, p.inst))

\* t - last for a frame of the instance L: frame timestamps never decrease,
\* but the first one is compared with a performance.now() read, which the
\* frame's timestamp (the time the frame began) may precede.
FrameGap(L, gap) == gap >= 0 \/ L.last = "created"

\* One run of loop(t): the callback p fires, gap after the previous timestamp.
Tick(p, gap) ==
    /\ p \in pending
    /\ FrameGap(loops[p.inst], gap)
    /\ LoopBody(p, DeltaTime(gap),
                Integrate(loops[p.inst], ReadKeys, Scale(DeltaTime(gap))))

\* Variant: a cleanup that cancels nothing.
NoCleanup(pend, lps, i) == pend

\* The physics effect's cleanup: cancelAnimationFrame(raf).
Cleanup(pend, lps, i) ==
    IF i \in DOMAIN lps THEN CancelAnimationFrame(pend, lps[i].raf) ELSE pend

\* Variant: every loop instance starts from the initial sample.
SeedInitial ==
    [longitude |-> center.longitude, latitude |-> center.latitude,
     headingDegrees |-> InitialHeadingDegrees]

\* The position and heading a new loop instance starts from.
Seed == drone

\* Variant: a button that always selects manual.
ToManual(m) == "manual"

\* setMode's updater: m === 'manual' ? 'auto' : 'manual'
Toggled(m) == IF m = "manual" THEN "auto" ELSE "manual"

\* Variant: a mode change that also clears the control flags.
ToggleModeClearing ==
    LET m == Toggled(mode)
        cancelled == Cleanup(pending, loops, effect)
        live == Live(loops, cancelled)
        i == Fresh(DOMAIN live)
        h == RequestHandle(cancelled, live, i)
    IN  /\ mounted
        /\ mode' = m
        /\ listenerMode' = m
        /\ keys' = NoKeys
        /\ loops' = [j \in (DOMAIN live) \cup {i} |->
                        IF j = i THEN StartLoop(m, Seed, h) ELSE live[j]]
        /\ pending' = cancelled \cup {[id |-> h, inst |-> i]}
        /\ effect' = i
        /\ UNCHANGED <<mounted, lastDefault, bounds, center, drone,
                       speedMps, pre, ticks, pagesVars, otherVars>>
        /\ ModeChangeLog(mode, m)

\* The operator's toggle button: setMode, then both effects with [mode] in
\* their dependencies are cleaned up and run again.
ToggleMode ==
    LET m == Toggled(mode)
        cancelled == Cleanup(pending, loops, effect)
        live == Live(loops, cancelled)
        i == Fresh(DOMAIN live)
        h == RequestHandle(cancelled, live, i)
    IN  /\ mounted
        /\ mode' = m
        /\ listenerMode' = m
        /\ loops' = [j \in (DOMAIN live) \cup {i} |->
                        IF j = i THEN StartLoop(m, Seed, h) ELSE live[j]]
        /\ pending' = cancelled \cup {[id |-> h, inst |-> i]}
        /\ effect' = i
        /\ UNCHANGED <<mounted, keys, lastDefault, bounds, center, drone,
                       speedMps, pre, ticks, pagesVars, otherVars>>
        /\ ModeChangeLog(mode, m)

ArrowKeys == {"ArrowUp", "ArrowDown", "ArrowLeft", "ArrowRight"}

EventKeys == ArrowKeys \cup {"Enter"}

\* Variant: handlers without the mode guard.
OnKeyAnyMode(m, k, key, value) ==
    [keys |-> [up |-> IF key = "ArrowUp" THEN value ELSE k.up,
               down |-> IF key = "ArrowDown" THEN value ELSE k.down,
               left |-> IF key = "ArrowLeft" THEN value ELSE k.left,
               right |-> IF key = "ArrowRight" THEN value ELSE k.right],
     handled |-> key \in ArrowKeys]

\* onDown / onUp: the flags after the handler and whether it handled the key.
OnKey(m, k, key, value) ==
    IF m # "manual" THEN [keys |-> k, handled |-> FALSE]
    ELSE LET k1 == IF key = "ArrowUp" THEN [k EXCEPT !.up = value] ELSE k
             k2 == IF key = "ArrowDown" THEN [k1 EXCEPT !.down = value] ELSE k1
             k3 == IF key = "ArrowLeft" THEN [k2 EXCEPT !.left = value] ELSE k2
             k4 == IF key = "ArrowRight" THEN [k3 EXCEPT !.right = value] ELSE k3
         IN  [keys |-> k4, handled |-> key \in ArrowKeys]

\* if (handled) e.preventDefault()
PreventDefault(handled) == IF handled THEN "prevented" ELSE "allowed"

OnDown(m, k, key) == OnKey(m, k, key, TRUE)

\* Variant: a key-up that sets the flag.
OnUpSets(m, k, key) == OnKey(m, k, key, TRUE)

OnUp(m, k, key) == OnKey(m, k, key, FALSE)

\* A keydown event reaches the window while the listeners are attached.
KeyDown(key) ==
    LET r == OnDown(listenerMode, keys, key)
    IN  /\ mounted
        /\ listenerMode # "none"
        /\ keys' = r.keys
        /\ lastDefault' = PreventDefault(r.handled)
        /\ UNCHANGED <<mounted, mode, listenerMode, bounds, center, drone, speedMps,
                       loops, pending, effect, pre, ticks, pagesVars, otherVars, physVars>>

KeyUp(key) ==
    LET r == OnUp(listenerMode, keys, key)
    IN  /\ mounted
        /\ listenerMode # "none"
        /\ keys' = r.keys
        /\ lastDefault' = PreventDefault(r.handled)
        /\ UNCHANGED <<mounted, mode, listenerMode, bounds, center, drone, speedMps,
                       loops, pending, effect, pre, ticks, pagesVars, otherVars, physVars>>

Flags == {"up", "down", "left", "right"}

\* The flag an arrow key controls.
FlagOf(key) ==
    CASE key = "ArrowUp" -> "up"
      [] key = "ArrowDown" -> "down"
      [] key = "ArrowLeft" -> "left"
      [] key = "ArrowRight" -> "right"

\* The on-screen control pad, rendered only in manual mode: onPointerDown
\* sets the button's flag, onPointerUp and onPointerLeave clear it.
Pointer(flag, value) ==
    /\ mounted
    /\ mode = "manual"
    /\ keys' = [keys EXCEPT ![flag] = value]
    /\ UNCHANGED <<mounted, mode, listenerMode, lastDefault, bounds, center,
                   drone, speedMps, loops, pending, effect, pre, ticks, pagesVars, otherVars, physVars>>

\* Variant: an unmount that leaves the requested frame in place.
UnmountWithoutCleanup ==
    /\ mounted
    /\ mounted' = FALSE
    /\ listenerMode' = "none"
    /\ effect' = 0
    /\ UNCHANGED <<mode, keys, lastDefault, bounds, center, drone,
                   speedMps, pre, ticks, pending, loops, pagesVars, otherVars>>
    /\ UnmountLog

\* The Dashboard leaves the screen: both effects are cleaned up.
Unmount ==
    LET cancelled == Cleanup(pending, loops, effect)
    IN  /\ mounted
        /\ mounted' = FALSE
        /\ listenerMode' = "none"
        /\ pending' = cancelled
        /\ loops' = Live(loops, cancelled)
        /\ effect' = 0
        /\ UNCHANGED <<mode, keys, lastDefault, bounds, center, drone,
                       speedMps, pre, ticks, pagesVars, otherVars>>
        /\ UnmountLog

-----------------------------------------------------------------------------
(* Text: a string is a sequence of one-character strings, or of longer     *)
(* tokens where the characters inside do not matter.                       *)

Chars == {" ", "A"}

Texts == UNION {[1..n -> Chars] : n \in 0..MaxTextLen}

RECURSIVE TrimStart(_)
TrimStart(s) ==
    IF s # <<>> /\ Head(s) = " " THEN TrimStart(Tail(s)) ELSE s

RECURSIVE TrimEnd(_)
TrimEnd(s) ==
    IF s # <<>> /\ s[Len(s)] = " " THEN TrimEnd(SubSeq(s, 1, Len(s) - 1)) ELSE s

\* String.prototype.trim
Trim(s) == TrimEnd(TrimStart(s))

-----------------------------------------------------------------------------
(* Mission Planner.                                                        *)

\* JSON.stringify of a waypoint list: each object becomes its values in
\* key order.
Serialize(ws) ==
    [i \in 1..Len(ws) |->
        <<ws[i].id, ws[i].longitude, ws[i].latitude, ws[i].name, ws[i].order>>]

\* JSON.parse of such a text.
Parse(text) ==
    [i \in 1..Len(text) |->
        [id |-> text[i][1], longitude |-> text[i][2], latitude |-> text[i][3],
         name |-> text[i][4], order |-> text[i][5]]]

\* The load effect's result: the stored list, or the initial empty list.
Load(item) == IF item.present THEN Parse(item.text) ELSE <<>>

\* The save effect: it writes the list unless the list is empty.
Save(ws, item) ==
    IF Len(ws) > 0 THEN [present |-> TRUE, text |-> Serialize(ws)] ELSE item

\* `Waypoint ${n}`
DefaultName(n) == <<"Waypoint", " ", ToString(n)>>

\* Points of the map the operator clicks.
MapPoints == {<<21, 52>>, <<22, 53>>}

Ids(ws) == {ws[i].id : i \in 1..Len(ws)}

RECURSIVE Without(_, _)
Without(ws, id) ==
    IF ws = <<>> THEN <<>>
    ELSE IF Head(ws).id = id THEN Without(Tail(ws), id)
    ELSE <<Head(ws)>> \o Without(Tail(ws), id)

Renumbered(ws) == [i \in 1..Len(ws) |-> [ws[i] EXCEPT !.order = i]]

Renamed(ws, id, name) ==
    [i \in 1..Len(ws) |-> IF ws[i].id = id THEN [ws[i] EXCEPT !.name = name] ELSE ws[i]]

\* The planner is opened: the load effect and then the save effect run.
OpenPlanner ==
    LET loaded == Load(stored)
    IN  /\ ~plannerOpen
        /\ plannerOpen' = TRUE
        /\ waypoints' = loaded
        /\ stored' = Save(loaded, stored)
        /\ editingWaypoint' = NoEdit
        /\ editingName' = <<>>
        /\ UNCHANGED <<dashVars, otherVars, now, logs, comment, leftWith>>

\* The operator navigates away: the component's state is dropped.
LeavePlanner ==
    /\ plannerOpen
    /\ plannerOpen' = FALSE
    /\ leftWith' = waypoints
    /\ waypoints' = <<>>
    /\ editingWaypoint' = NoEdit
    /\ editingName' = <<>>
    /\ UNCHANGED <<dashVars, otherVars, now, stored, logs, comment>>

\* handleMapClick, and the save effect that follows the re-render.
MapClick(lng, lat) ==
    LET n == Len(waypoints) + 1
        added == Append(waypoints,
                        [id |-> ToString(now), longitude |-> lng, latitude |-> lat,
                         name |-> DefaultName(n), order |-> n])
    IN  /\ plannerOpen
        /\ now < MaxClicks
        /\ Len(waypoints) < MaxWaypoints
        /\ now' = now + 1
        /\ waypoints' = added
        /\ stored' = Save(added, stored)
        /\ UNCHANGED <<dashVars, otherVars, plannerOpen, editingWaypoint, editingName,
                       logs, comment, leftWith>>

\* handleDeleteWaypoint, and the save effect.  The Delete button of a
\* waypoint is not rendered while that waypoint is being renamed.
DeleteWaypoint(id) ==
    LET updated == Renumbered(Without(waypoints, id))
    IN  /\ plannerOpen
        /\ id \in Ids(waypoints)
        /\ id # editingWaypoint
        /\ waypoints' = updated
        /\ stored' = Save(updated, stored)
        /\ UNCHANGED <<dashVars, otherVars, now, plannerOpen, editingWaypoint, editingName,
                       logs, comment, leftWith>>

\* handleEditWaypoint
EditWaypoint(id) ==
    /\ plannerOpen
    /\ id \in Ids(waypoints)
    /\ id # editingWaypoint
    /\ editingWaypoint' = id
    /\ editingName' = (CHOOSE w \in {waypoints[i] : i \in 1..Len(waypoints)} : w.id = id).name
    /\ UNCHANGED <<dashVars, otherVars, now, plannerOpen, waypoints, stored, logs, comment,
                   leftWith>>

\* The rename input's onChange.
TypeName(text) ==
    /\ plannerOpen
    /\ editingWaypoint # NoEdit
    /\ editingName' = text
    /\ UNCHANGED <<dashVars, otherVars, now, plannerOpen, waypoints, stored, editingWaypoint,
                   logs, comment, leftWith>>

\* handleSaveEdit (Enter in the rename input), and the save effect.
SaveEdit ==
    /\ plannerOpen
    /\ editingWaypoint # NoEdit
    /\ IF Trim(editingName) # <<>>
       THEN LET updated == Renamed(waypoints, editingWaypoint, Trim(editingName))
            IN  /\ waypoints' = updated
                /\ stored' = Save(updated, stored)
                /\ editingWaypoint' = NoEdit
                /\ editingName' = <<>>
       ELSE UNCHANGED <<waypoints, stored, editingWaypoint, editingName>>
    /\ UNCHANGED <<dashVars, otherVars, now, plannerOpen, logs, comment, leftWith>>

\* Escape in the rename input.
CancelEdit ==
    /\ plannerOpen
    /\ editingWaypoint # NoEdit
    /\ editingWaypoint' = NoEdit
    /\ editingName' = <<>>
    /\ UNCHANGED <<dashVars, otherVars, now, plannerOpen, waypoints, stored, logs, comment,
                   leftWith>>

-----------------------------------------------------------------------------
(* Operational log (rendered by the Dashboard).                            *)

\* Variant: the log keeps every entry.
Uncapped(entries) == entries

\* .slice(0, LOG_CONFIG.MAX_LOG_ENTRIES)
Capped(entries) == SubSeq(entries, 1, Min(Len(entries), MAX_LOG_ENTRIES))

\* Comments the operator types: blank ones of every length, and the one-letter
\* comment with and without blanks around it.
Comments == {c \in Texts : Trim(c) \in {<<>>, <<"A">>}}

\* The comment input's onChange.
TypeComment(text) ==
    /\ mounted
    /\ comment' = text
    /\ UNCHANGED <<dashVars, otherVars, now, plannerOpen, waypoints, stored, editingWaypoint,
                   editingName, logs, leftWith>>

\* handleSubmit: a blank comment returns early; otherwise the new entry goes
\* to the front and the list is cut to MAX_LOG_ENTRIES.
Submit ==
    /\ mounted
    /\ IF Trim(comment) = <<>>
       THEN UNCHANGED <<now, logs, comment>>
       ELSE /\ now < MaxSubmits
            /\ now' = now + 1
            /\ logs' = Capped(<<[id |-> ToString(now), timestamp |-> now,
                                 message |-> Trim(comment)]>> \o logs)
            /\ comment' = <<>>
    /\ UNCHANGED <<dashVars, otherVars, plannerOpen, waypoints, stored, editingWaypoint,
                   editingName, leftWith>>

-----------------------------------------------------------------------------
(* Specifications.                                                         *)

\* Frame gaps explored by Spec: a repeated timestamp and a late frame.  The
\* early first frame is explored by SpecStep.
Gaps == {0, MaxGap}

AnyTick == ticks < MaxTicks /\ \E p \in pending : \E gap \in Gaps : Tick(p, gap)

AnyKeyDown == \E key \in EventKeys : KeyDown(key)

AnyKeyUp == \E key \in EventKeys : KeyUp(key)

AnyPointer == \E flag \in Flags : \E value \in BOOLEAN : Pointer(flag, value)

Next ==
    \/ AnyTick
    \/ AnyKeyDown
    \/ AnyKeyUp
    \/ AnyPointer
    \/ ToggleMode
    \/ Unmount

Spec == Init /\ [][Next]_vars

-----------------------------------------------------------------------------
(* SpecStep: the loop body on its input space.  A loop instance starts at  *)
(* rest from a published sample (as after any mode change); the sample,    *)
(* the mode and the flags are drawn from sets that cover the envelope's     *)
(* edges, corners and interior, and the instance then ticks with every gap.*)

Modes == {"auto", "manual"}

FlagSets == [up : BOOLEAN, down : BOOLEAN, left : BOOLEAN, right : BOOLEAN]

\* On an axis: the edges, the points within the margin of one edge and just
\* outside the margin of the other, and the middle.
AxisSamples(lo, hi) ==
    {lo, lo + BOUNDARY_MARGIN, (lo + hi) \div 2, hi - BOUNDARY_MARGIN - 1, hi}

Headings == {h \in 0..359 : h % HeadingStride = 0} \cup {InitialHeadingDegrees}

InitStep ==
    \E m \in Modes : \E k \in FlagSets :
    \E x \in AxisSamples(-EnvHalfLng, EnvHalfLng) :
    \E y \in AxisSamples(-EnvHalfLat, EnvHalfLat) :
    \E h \in Headings :
        Started(<<-EnvHalfLng, -EnvHalfLat, EnvHalfLng, EnvHalfLat>>, m, k,
                [longitude |-> x, latitude |-> y, headingDegrees |-> h])

StepTick ==
    ticks < MaxStepTicks /\ \E p \in pending : \E gap \in (-MaxEarly)..MaxGap : Tick(p, gap)

SpecStep == InitStep /\ [][StepTick]_vars

-----------------------------------------------------------------------------
(* SpecCruise: auto mode left alone in an envelope too large to touch,     *)
(* every frame one baseline frame (1/60 s) after the previous one.         *)

InitCruise == Mounted(<<-CruiseHalf, -CruiseHalf, CruiseHalf, CruiseHalf>>)

CruiseTick == ticks < MaxCruiseTicks /\ \E p \in pending : Tick(p, 1)

SpecCruise == InitCruise /\ [][CruiseTick]_vars

-----------------------------------------------------------------------------
(* SpecYaw: the operator switches to manual before the first frame runs    *)
(* and then only steers (ArrowLeft, ArrowRight); frames arrive on time or  *)
(* late.                                                                   *)

YawToggle == ticks = 0 /\ mode = "auto" /\ ToggleMode

YawKeyDown == \E key \in {"ArrowLeft", "ArrowRight"} : KeyDown(key)

YawKeyUp == \E key \in {"ArrowLeft", "ArrowRight"} : KeyUp(key)

YawTick ==
    /\ ticks < MaxYawTicks
    /\ mode = "manual"
    /\ \E p \in pending : \E gap \in {1, MaxGap} : Tick(p, gap)

NextYaw ==
    \/ YawToggle
    \/ YawKeyDown
    \/ YawKeyUp
    \/ YawTick

SpecYaw == Init /\ [][NextYaw]_vars

-----------------------------------------------------------------------------
(* SpecSym: manual mode from rest with a fixed heading in an envelope too  *)
(* large to touch; the operator holds ArrowUp for up to MaxSymN frames,   *)
(* releases it, holds ArrowDown, and frames arrive every 1/60 s while one *)
(* of the two keys is held.                                                *)

UpHeld == [up |-> TRUE, down |-> FALSE, left |-> FALSE, right |-> FALSE]

InitSym ==
    \E h \in 0..359 :
        Started(<<-CruiseHalf, -CruiseHalf, CruiseHalf, CruiseHalf>>, "manual", UpHeld,
                [longitude |-> 0, latitude |-> 0, headingDegrees |-> h])

SymTick ==
    /\ ticks < 2 * MaxSymN
    /\ keys.up # keys.down
    /\ \E p \in pending : Tick(p, 1)

SymRelease == keys.up /\ ticks \in 1..MaxSymN /\ KeyUp("ArrowUp")

SymPress == ~keys.up /\ ~keys.down /\ KeyDown("ArrowDown")

NextSym == SymTick \/ SymRelease \/ SymPress

SpecSym == InitSym /\ [][NextSym]_vars

-----------------------------------------------------------------------------
(* SpecPlanner: visits of the Mission Planner on a fresh origin.           *)

AnyMapClick == \E pt \in MapPoints : MapClick(pt[1], pt[2])

AnyDelete == \E id \in Ids(waypoints) : DeleteWaypoint(id)

AnyEdit == \E id \in Ids(waypoints) : EditWaypoint(id)

AnyTypeName == \E text \in Texts : TypeName(text)

NextPlanner ==
    \/ OpenPlanner
    \/ LeavePlanner
    \/ AnyMapClick
    \/ AnyDelete
    \/ AnyEdit
    \/ AnyTypeName
    \/ SaveEdit
    \/ CancelEdit

SpecPlanner == Init /\ [][NextPlanner]_vars

-----------------------------------------------------------------------------
(* SpecLog: the operator types and submits comments on the dashboard.      *)

AnyTypeComment == \E text \in Comments : TypeComment(text)

NextLog == AnyTypeComment \/ Submit

SpecLog == Init /\ [][NextLog]_vars

-----------------------------------------------------------------------------
(* SpecStuck: the operator switches to manual, presses one arrow key,      *)
(* switches to auto while holding it, releases it there, and returns to    *)
(* manual; later the same key is released once more or the pad button of   *)
(* the control is released.  Here lastDefault is "none" until the key goes *)
(* down, "prevented" from then until the release in auto, "allowed" from   *)
(* that release on, and "prevented" again after the release in manual.     *)

StuckToManual == mode = "auto" /\ lastDefault \in {"none", "allowed"} /\ ToggleMode

StuckPress ==
    /\ mode = "manual" /\ lastDefault = "none"
    /\ \E key \in ArrowKeys : KeyDown(key)

StuckToAuto == mode = "manual" /\ lastDefault = "prevented" /\ keys # NoKeys /\ ToggleMode

StuckReleaseInAuto ==
    /\ mode = "auto" /\ lastDefault = "prevented"
    /\ \E key \in ArrowKeys : keys[FlagOf(key)] /\ KeyUp(key)

StuckReleaseInManual ==
    /\ mode = "manual" /\ lastDefault = "allowed"
    /\ \E key \in ArrowKeys : keys[FlagOf(key)] /\ KeyUp(key)

StuckPointerRelease ==
    /\ lastDefault = "allowed"
    /\ \E flag \in Flags : keys[flag] /\ Pointer(flag, FALSE)

StuckTick ==
    /\ ticks < MaxStuckTicks
    /\ \E p \in pending : \E gap \in {1, MaxGap} : Tick(p, gap)

NextStuck ==
    \/ StuckToManual
    \/ StuckPress
    \/ StuckToAuto
    \/ StuckReleaseInAuto
    \/ StuckReleaseInManual
    \/ StuckPointerRelease
    \/ StuckTick

SpecStuck == Init /\ [][NextStuck]_vars

-----------------------------------------------------------------------------
(* SpecAuto: an auto instance started at rest from a sample on or inside   *)
(* the envelope, with each of the sixteen values of the control flags,     *)
(* ticking with an early first frame, an on-time frame or a late frame.    *)
(* In auto no handler writes the flags, so they stay as they started.      *)

InitAuto ==
    \E k \in FlagSets :
    \E x \in AxisSamples(-EnvHalfLng, EnvHalfLng) :
    \E y \in AxisSamples(-EnvHalfLat, EnvHalfLat) :
    \E h \in Headings :
        Started(<<-EnvHalfLng, -EnvHalfLat, EnvHalfLng, EnvHalfLat>>, "auto", k,
                [longitude |-> x, latitude |-> y, headingDegrees |-> h])

AutoTick ==
    /\ ticks < MaxAutoTicks
    /\ \E p \in pending : \E gap \in {-MaxEarly, 1, MaxGap} : Tick(p, gap)

SpecAuto == InitAuto /\ [][AutoTick]_vars

-----------------------------------------------------------------------------
(* SpecNorth: an envelope whose north edge lies just south of the latitude *)
(* at which the cosine table moves to its next entry (EnvLatDeg + 1/2      *)
(* degree), and an instance started at rest on that edge, in either mode,  *)
(* with no flag or the forward flag set.  Steps that overshoot the edge    *)
(* are integrated at a latitude the table distinguishes from the clamped   *)
(* one.                                                                    *)

NorthEdge == PosUnitsPerDeg \div 2 - 1

NorthBox == <<-EnvHalfLng, NorthEdge - 2 * EnvHalfLat, EnvHalfLng, NorthEdge>>

InitNorth ==
    \E m \in Modes : \E k \in {NoKeys, UpHeld} : \E h \in Headings :
        Started(NorthBox, m, k,
                [longitude |-> 0, latitude |-> NorthEdge, headingDegrees |-> h])

NorthTick ==
    /\ ticks < MaxNorthTicks
    /\ \E p \in pending : \E gap \in {1, MaxGap} : Tick(p, gap)

SpecNorth == InitNorth /\ [][NorthTick]_vars

-----------------------------------------------------------------------------
(* SpecLive: the dashboard from mount to unmount with on-time frames and   *)
(* mode changes.  The host keeps delivering animation frames: a requested  *)
(* frame's callback is eventually run (weak fairness of the tick), up to   *)
(* MaxLiveTicks ticks.                                                     *)

LiveTick == ticks < MaxLiveTicks /\ \E p \in pending : Tick(p, 1)

NextLive ==
    \/ LiveTick
    \/ ToggleMode
    \/ Unmount

\* What a step of NextLive is exactly when it is a LiveTick step: a frame is
\* requested, the tick bound is not reached, and the tick count advances.
FrameRuns == ticks < MaxLiveTicks /\ pending # {} /\ ticks' = ticks + 1

SpecLive == Init /\ [][NextLive]_vars /\ WF_ticks(FrameRuns)

-----------------------------------------------------------------------------
(* The Dashboard revision with the physics log: frames, mode changes, the   *)
(* throttle pad, removals asked for by the map, unmount.                    *)

MaxPhysTicks == 3
MaxPhysEntries == 9

InitPhys ==
    LET c == CalculateMapBounds(<<-EnvHalfLng, -EnvHalfLat, EnvHalfLng, EnvHalfLat>>).center
    IN  /\ StartedDash(<<-EnvHalfLng, -EnvHalfLat, EnvHalfLng, EnvHalfLat>>, "auto", NoKeys,
                       [longitude |-> c.longitude, latitude |-> c.latitude,
                        headingDegrees |-> InitialHeadingDegrees])
        /\ LogsOn("auto")
        /\ OthersIdle

PhysTick ==
    /\ ticks < MaxPhysTicks
    /\ \E p \in pending : \E gap \in {0, MaxGap} : Tick(p, gap)

PhysToggle == logCount + 3 <= MaxPhysEntries /\ ToggleMode

PhysThrottle == \E value \in BOOLEAN : Pointer("up", value)

\* The map asks for the removal of an entry when the entry's removal timer
\* fires; the timers have the same delay from the entries' timestamps, so
\* the oldest entry goes first.
PhysRemove == physicsLogs # <<>> /\ OnLogRemove(Head(physicsLogs).id)

NextPhys == PhysTick \/ PhysToggle \/ PhysThrottle \/ PhysRemove \/ Unmount

SpecPhys == InitPhys /\ [][NextPhys]_vars

-----------------------------------------------------------------------------
(* The map's toasts.  The Dashboard hands physicsLogs and onLogRemove to    *)
(* the map; the map's log effect runs after every Dashboard render (the     *)
(* callback is a new function at each render), some time after the render  *)
(* has been committed, and timers fire when they are due or later.  Time is *)
(* counted in units of MsPerUnit milliseconds.                              *)

MsPerUnit == 500
FadeAfter == 3000 \div MsPerUnit
RemoveAfter == 3500 \div MsPerUnit

MaxToastLogs == 2
MaxToastTime == 8

LogIds(log) == {log[i].id : i \in DOMAIN log}

\* Object.keys(logTimeoutsRef.current) that are not ids of the log.
StaleIds(log) == {id \in DOMAIN logTimeouts : id \notin LogIds(log)}

\* The entries of the log without an entry in logTimeoutsRef.current.
NewLogs(log) == {log[i] : i \in {j \in DOMAIN log : log[j].id \notin DOMAIN logTimeouts}}

PairsOf(id) == Cardinality({q \in timerPairs : q.id = id})

\* setTimeout(..., Math.max(0, delay - age)) with age = Date.now() - log.timestamp
TimerFor(e, kind, delay) ==
    [id |-> e.id, pair |-> PairsOf(e.id) + 1, kind |-> kind,
     due |-> now + Max(0, delay - (now - e.timestamp)), timestamp |-> e.timestamp]

\* The timers the ref holds for the ids in the set.
HeldFor(ids) == {t \in timers : t.id \in ids /\ logTimeouts[t.id] = t.pair}

InitToast ==
    LET c == CalculateMapBounds(<<-EnvHalfLng, -EnvHalfLat, EnvHalfLng, EnvHalfLat>>).center
    IN  /\ StartedDash(<<-EnvHalfLng, -EnvHalfLat, EnvHalfLng, EnvHalfLat>>, "auto", NoKeys,
                       [longitude |-> c.longitude, latitude |-> c.latitude,
                        headingDegrees |-> InitialHeadingDegrees])
        /\ LogsOn("auto")
        /\ renderDue = TRUE
        /\ effectProps = NoProps
        /\ logTimeouts = <<>>
        /\ timers = {}
        /\ fadingLogs = {}
        /\ timerPairs = {}
        /\ fired = <<>>
        /\ droneTrace = <<>>
        /\ HookIdle

toastRest == <<mounted, mode, keys, listenerMode, lastDefault, bounds, center, drone,
               speedMps, loops, pending, effect, pre, ticks, logging, wasMoving,
               plannerOpen, waypoints, stored, editingWaypoint, editingName, logs,
               comment, leftWith, droneTrace, hookVars>>

\* The simulation logs an entry.
ToastAppend ==
    /\ logCount < MaxToastLogs
    /\ AddPhysicsLogs(<<(<<"bounce", <<"Drone bounced", "north">> >>)>>)
    /\ renderDue' = TRUE
    /\ UNCHANGED <<toastRest, now, effectProps, logTimeouts, timers, fadingLogs,
                   timerPairs, fired>>

Elapse ==
    /\ now < MaxToastTime
    /\ now' = now + 1
    /\ UNCHANGED <<toastRest, physicsLogs, logCount, renderDue, effectProps, logTimeouts,
                   timers, fadingLogs, timerPairs, fired>>

\* The Dashboard renders (a state update or a new drone sample) and commits;
\* the effects of the previous render have run by then.
Render ==
    /\ ~effectProps.pending
    /\ effectProps' = [pending |-> TRUE, physicsLogs |-> physicsLogs]
    /\ renderDue' = FALSE
    /\ UNCHANGED <<toastRest, now, physicsLogs, logCount, logTimeouts, timers,
                   fadingLogs, timerPairs, fired>>

\* The body of the log effect for props.physicsLogs = log.
LogEffect(log) ==
    LET stale == StaleIds(log)
        new == NewLogs(log)
    IN  /\ timers' = (timers \ HeldFor(stale))
                        \cup {TimerFor(e, "fade", FadeAfter) : e \in new}
                        \cup {TimerFor(e, "remove", RemoveAfter) : e \in new}
        /\ logTimeouts' = [id \in (DOMAIN logTimeouts \ stale) \cup {e.id : e \in new} |->
                              IF id \in DOMAIN logTimeouts \ stale
                              THEN logTimeouts[id] ELSE PairsOf(id) + 1]
        /\ fadingLogs' = fadingLogs \ stale
        /\ timerPairs' = timerPairs \cup {[id |-> e.id, pair |-> PairsOf(e.id) + 1] : e \in new}

RunEffect ==
    /\ effectProps.pending
    /\ LogEffect(effectProps.physicsLogs)
    /\ effectProps' = NoProps
    /\ UNCHANGED <<toastRest, now, physicsLogs, logCount, renderDue, fired>>

\* The host runs a timer when it is due or later, the earliest first, and of
\* two timers due together the one set first.
MayFire(t) ==
    /\ t \in timers
    /\ t.due <= now
    /\ \A u \in timers : u.due >= t.due
    /\ t.kind = "remove" =>
          [id |-> t.id, pair |-> t.pair, kind |-> "fade", due |-> t.due,
           timestamp |-> t.timestamp] \notin timers

Firing(t) == [id |-> t.id, kind |-> t.kind, at |-> now, timestamp |-> t.timestamp]

\* fadeTimeout: setFadingLogs(prev => new Set(prev).add(log.id))
FireFade(t) ==
    /\ MayFire(t)
    /\ t.kind = "fade"
    /\ timers' = timers \ {t}
    /\ fadingLogs' = fadingLogs \cup {t.id}
    /\ fired' = Append(fired, Firing(t))
    /\ UNCHANGED <<toastRest, now, physicsLogs, logCount, renderDue, effectProps,
                   logTimeouts, timerPairs>>

\* removeTimeout: props.onLogRemove(log.id); delete logTimeoutsRef.current[log.id];
\* setFadingLogs(prev => prev without log.id)
FireRemove(t) ==
    /\ MayFire(t)
    /\ t.kind = "remove"
    /\ timers' = timers \ {t}
    /\ physicsLogs' = Removed(physicsLogs, t.id)
    /\ renderDue' = TRUE
    /\ logTimeouts' = [id \in DOMAIN logTimeouts \ {t.id} |-> logTimeouts[id]]
    /\ fadingLogs' = fadingLogs \ {t.id}
    /\ fired' = Append(fired, Firing(t))
    /\ UNCHANGED <<toastRest, now, logCount, effectProps, timerPairs>>

AnyFire == \E t \in timers : FireFade(t) \/ FireRemove(t)

NextToast == ToastAppend \/ Elapse \/ Render \/ RunEffect \/ AnyFire

SpecToast == InitToast /\ [][NextToast]_vars

-----------------------------------------------------------------------------
(* The map's drone trace.  Every sample the Dashboard publishes reaches the *)
(* map as a new props.drone, and the trace effect runs once for it.         *)

MAX_TRACE_POINTS == 1000
MIN_DISTANCE_THRESHOLD == 10000       \* 0.00001 degrees, in position units

MaxTraceSteps == 1002
MaxVaried == 2

\* Variant: the oldest points are kept.
SliceOldest(updated) ==
    IF Len(updated) > MAX_TRACE_POINTS
    THEN SubSeq(updated, 1, MAX_TRACE_POINTS)
    ELSE updated

\* updated.length > MAX_TRACE_POINTS ? updated.slice(-MAX_TRACE_POINTS) : updated
SliceRecent(updated) ==
    IF Len(updated) > MAX_TRACE_POINTS
    THEN SubSeq(updated, Len(updated) - MAX_TRACE_POINTS + 1, Len(updated))
    ELSE updated

\* Variant: a move of exactly the threshold counts.
MovedAtLeast(lastPoint, newPoint) ==
    \/ Abs(lastPoint[1] - newPoint[1]) >= MIN_DISTANCE_THRESHOLD
    \/ Abs(lastPoint[2] - newPoint[2]) >= MIN_DISTANCE_THRESHOLD

Moved(lastPoint, newPoint) ==
    \/ Abs(lastPoint[1] - newPoint[1]) > MIN_DISTANCE_THRESHOLD
    \/ Abs(lastPoint[2] - newPoint[2]) > MIN_DISTANCE_THRESHOLD

\* The updater passed to setDroneTrace.
Traced(prev, newPoint) ==
    IF Len(prev) = 0 THEN <<newPoint>>
    ELSE IF Moved(prev[Len(prev)], newPoint)
         THEN SliceRecent(Append(prev, newPoint))
         ELSE prev

NewPoint(d) == <<d.longitude, d.latitude>>

\* Samples that do not move the drone away from the last recorded point.
NearMoves == {<<0, 0>>, <<MIN_DISTANCE_THRESHOLD, MIN_DISTANCE_THRESHOLD>>,
              <<-MIN_DISTANCE_THRESHOLD, 0>>, <<1, -1>>}

\* Samples that do: in any direction for the first points, then eastwards.
FarMoves ==
    IF Len(droneTrace) < MaxVaried
    THEN {<<MIN_DISTANCE_THRESHOLD + 1, 0>>, <<0, MIN_DISTANCE_THRESHOLD + 1>>,
          <<0, -(MIN_DISTANCE_THRESHOLD + 1)>>,
          <<-(MIN_DISTANCE_THRESHOLD + 1), MIN_DISTANCE_THRESHOLD>>}
    ELSE {<<MIN_DISTANCE_THRESHOLD + 1, 0>>}

traceRest == <<mounted, mode, keys, listenerMode, lastDefault, bounds, center,
               speedMps, loops, pending, effect, pre, ticks, physVars, pagesVars,
               renderDue, effectProps, logTimeouts, timers, fadingLogs, timerPairs,
               fired, hookVars>>

\* The effect for the sample d.
TraceEffect(d) ==
    /\ drone' = d
    /\ droneTrace' = Traced(droneTrace, NewPoint(d))
    /\ UNCHANGED traceRest

FirstSample == droneTrace = <<>> /\ TraceEffect(drone)

NextSample ==
    /\ droneTrace # <<>>
    /\ \E mv \in NearMoves \cup FarMoves :
          LET lastPoint == droneTrace[Len(droneTrace)]
          IN  /\ lastPoint[1] + mv[1] <= MaxTraceSteps * (MIN_DISTANCE_THRESHOLD + 1)
              /\ TraceEffect([drone EXCEPT !.longitude = lastPoint[1] + mv[1],
                                           !.latitude = lastPoint[2] + mv[2]])

NextTrace == FirstSample \/ NextSample

SpecTrace == Init /\ [][NextTrace]_vars

-----------------------------------------------------------------------------
(* useLocalStorage.  A call of setValue queues a state update and restarts  *)
(* the debounce timer; the update is rendered later, and the effect that    *)
(* copies storedValue to valueRef runs after that render.  A parent can     *)
(* unmount the component in the render that would have shown the update.    *)
(* Time is counted in units of StoreMsPerUnit milliseconds.                 *)

STORAGE_DEBOUNCE_MS == 300
StoreMsPerUnit == 100
DebounceUnits == STORAGE_DEBOUNCE_MS \div StoreMsPerUnit

MaxCalls == 3
MaxStoreTime == 8

\* JSON.stringify of a stored value.
Stringify(v) == [present |-> TRUE, text |-> <<ToString(v)>>]

storeRest == <<dashVars, pagesVars, viewVars>>

StoreElapse ==
    /\ now < MaxStoreTime
    /\ now' = now + 1
    /\ UNCHANGED <<mounted, mode, keys, listenerMode, lastDefault, bounds, center,
                   drone, speedMps, loops, pending, effect, pre, ticks, physVars,
                   plannerOpen, waypoints, stored, editingWaypoint, editingName,
                   logs, comment, leftWith, viewVars, hookVars>>

\* setValue(value): setStoredValue(value); writeToStorage(value)
SetValue ==
    /\ hookMounted
    /\ lastSet.calls < MaxCalls
    /\ LET value == lastSet.calls + 1
       IN  /\ queued' = [pending |-> TRUE, value |-> value]
           /\ debounceTimer' = [set |-> TRUE, live |-> TRUE, value |-> value,
                                due |-> now + DebounceUnits]
           /\ lastSet' = [value |-> value, at |-> now, calls |-> value]
    /\ UNCHANGED <<storeRest, hookMounted, storedValue, valueRef, storageItem>>

\* The render that shows the queued update, and its effect
\* valueRef.current = storedValue.
HookRender ==
    /\ hookMounted
    /\ queued.pending
    /\ storedValue' = queued.value
    /\ valueRef' = queued.value
    /\ queued' = NoUpdate
    /\ UNCHANGED <<storeRest, hookMounted, debounceTimer, storageItem, lastSet>>

\* The debounce timer's callback: localStorage.setItem(key, serializer(value)).
\* debounceTimerRef.current keeps the handle.
DebounceFires ==
    /\ debounceTimer.live
    /\ debounceTimer.due <= now
    /\ storageItem' = Stringify(debounceTimer.value)
    /\ debounceTimer' = [debounceTimer EXCEPT !.live = FALSE]
    /\ UNCHANGED <<storeRest, hookMounted, storedValue, queued, valueRef, lastSet>>

\* Variant: the cleanup writes the value of the last call.
CleanupWritesLast ==
    IF debounceTimer.set THEN Stringify(lastSet.value) ELSE storageItem

\* The cleanup: if (debounceTimerRef.current) { clearTimeout(...);
\* localStorage.setItem(key, serializer(valueRef.current)) }
CleanupWrites ==
    IF debounceTimer.set THEN Stringify(valueRef) ELSE storageItem

\* The component is unmounted; an update still queued is dropped.
HookUnmount ==
    /\ hookMounted
    /\ hookMounted' = FALSE
    /\ storageItem' = CleanupWrites
    /\ debounceTimer' = [debounceTimer EXCEPT !.live = FALSE]
    /\ queued' = NoUpdate
    /\ UNCHANGED <<storeRest, storedValue, valueRef, lastSet>>

NextStore == StoreElapse \/ SetValue \/ HookRender \/ DebounceFires \/ HookUnmount

SpecStore == Init /\ [][NextStore]_vars

-----------------------------------------------------------------------------
(* Properties.                                                             *)

\* Squared speed of a velocity.
Speed2(v) == v.velX * v.velX + v.velY * v.velY

\* The closure locals of the instance that ran the last tick.
Ended == loops[pre.inst]

\* A tick has run and its instance is still the one in loops.
Ticked == pre.mode # "none" /\ pre.inst \in DOMAIN loops

\* C1 (as stated): after every step, in either mode, for all flags and every
\* dt, hypot(velX, velY) <= MAX_SPEED exactly.
C1_SpeedBoundExact ==
    \A i \in DOMAIN loops : Speed2(loops[i]) <= MAX_SPEED * MAX_SPEED

\* C1 (amended): after every step, in either mode, for all flags and every
\* dt, hypot(velX, velY) <= MAX_SPEED up to the rounding of the rescale
\* (one velocity unit), reflections included.
C1_SpeedBound ==
    \A i \in DOMAIN loops : Speed2(loops[i]) <= (MAX_SPEED + 1) * (MAX_SPEED + 1)

\* A step in auto in which the clamp rescaled the velocity and the west
\* edge then negated velX.
C1_Witness ==
    /\ Ticked
    /\ pre.mode = "auto"
    /\ pre.velX < 0
    /\ Ended.velX = -pre.velX
    /\ Speed2(pre) > (MAX_SPEED - 1) * (MAX_SPEED - 1)

InEnvelope(d) ==
    /\ bounds.minLng <= d.longitude /\ d.longitude <= bounds.maxLng
    /\ bounds.minLat <= d.latitude /\ d.latitude <= bounds.maxLat

\* C2: every published sample has its longitude in [minLng, maxLng] and its
\* latitude in [minLat, maxLat], in both modes, after any sequence of ticks,
\* key events and mode toggles.
C2_EnvelopeContainment == InEnvelope(drone)

\* A step whose position update left the envelope to the east and whose
\* published sample lies on the east edge.
C2_Witness ==
    /\ Ticked
    /\ pre.posLng > bounds.maxLng
    /\ drone.longitude = bounds.maxLng

\* C3 (as stated): the headingDegrees of every published sample is in
\* [0, 360), also after yawLeft has been held for many consecutive ticks.
C3_HeadingNormalized == 0 <= drone.headingDegrees /\ drone.headingDegrees < 360

CruiseSpeed == (MAX_SPEED * AutoSpeedMultNum) \div AutoSpeedMultDen

\* C4: from rest in auto with dt = 1/60 on every tick and no boundary
\* contact, the speed never decreases from one tick to the next and never
\* exceeds 0.8 * MAX_SPEED, over MaxCruiseTicks ticks.
C4_AutoCruise ==
    [][ticks' = ticks + 1 =>
          /\ Speed2(loops'[effect]) >= Speed2(loops[effect])
          /\ Speed2(loops'[effect]) <= CruiseSpeed * CruiseSpeed]_vars

\* The cruise has run all its ticks, is moving, and never touched an edge.
C4_Witness ==
    /\ ticks = MaxCruiseTicks
    /\ mode = "auto"
    /\ Speed2(loops[effect]) > 0
    /\ bounds.minLng + BOUNDARY_MARGIN < drone.longitude
    /\ drone.longitude < bounds.maxLng - BOUNDARY_MARGIN
    /\ bounds.minLat + BOUNDARY_MARGIN < drone.latitude
    /\ drone.latitude < bounds.maxLat - BOUNDARY_MARGIN

\* The conditions of the four edge checks on the state after the position
\* update.
HitsWest == pre.posLng <= bounds.minLng + BOUNDARY_MARGIN /\ pre.velX < 0

HitsEast == pre.posLng >= bounds.maxLng - BOUNDARY_MARGIN /\ pre.velX > 0

HitsSouth == pre.posLat <= bounds.minLat + BOUNDARY_MARGIN /\ pre.velY < 0

HitsNorth == pre.posLat >= bounds.maxLat - BOUNDARY_MARGIN /\ pre.velY > 0

\* C5 (as stated): in auto, a step that meets the west (east) edge with velX
\* pointing outward ends with velX negated and velY unchanged; a step that
\* meets the south (north) edge with velY pointing outward ends with velY
\* negated and velX unchanged.
C5_ReflectionOtherUnchanged ==
    (Ticked /\ pre.mode = "auto") =>
        /\ (HitsWest \/ HitsEast) => (Ended.velX = -pre.velX /\ Ended.velY = pre.velY)
        /\ (HitsSouth \/ HitsNorth) => (Ended.velY = -pre.velY /\ Ended.velX = pre.velX)

\* C5 (amended): in auto, a step that meets the west or east edge with velX
\* pointing outward ends with velX negated, one that meets the south or
\* north edge with velY pointing outward ends with velY negated, and a
\* component is unchanged exactly when its own edges are not met: at a
\* corner both are negated.
C5_ReflectionSignFlip ==
    (Ticked /\ pre.mode = "auto") =>
        /\ Ended.velX = (IF HitsWest \/ HitsEast THEN -pre.velX ELSE pre.velX)
        /\ Ended.velY = (IF HitsSouth \/ HitsNorth THEN -pre.velY ELSE pre.velY)

\* A step in auto that met the west edge only, moving along both axes.
C5_Witness ==
    /\ Ticked
    /\ pre.mode = "auto"
    /\ HitsWest /\ ~HitsSouth /\ ~HitsNorth
    /\ pre.velY # 0
    /\ Ended.velX = -pre.velX
    /\ Ended.velY = pre.velY

\* C6: in manual the boundary policy never changes velX, velY or yaw; the
\* position is clamped to the envelope and the integrator's velocity is
\* kept, so a drone on an edge with its velocity into the wall is published
\* on that edge again.
C6_ManualClampOnly ==
    [][(ticks' = ticks + 1 /\ pre'.mode = "manual") =>
          /\ loops'[pre'.inst].velX = pre'.velX
          /\ loops'[pre'.inst].velY = pre'.velY
          /\ loops'[pre'.inst].yaw = pre'.yaw
          /\ loops'[pre'.inst].posLng = Min(bounds.maxLng, Max(bounds.minLng, pre'.posLng))
          /\ loops'[pre'.inst].posLat = Min(bounds.maxLat, Max(bounds.minLat, pre'.posLat))
          /\ drone'.longitude = loops'[pre'.inst].posLng
          /\ drone'.latitude = loops'[pre'.inst].posLat
          /\ (drone.longitude = bounds.maxLng /\ pre'.velX >= 0)
                => drone'.longitude = bounds.maxLng
          /\ (drone.longitude = bounds.minLng /\ pre'.velX <= 0)
                => drone'.longitude = bounds.minLng
          /\ (drone.latitude = bounds.maxLat /\ pre'.velY >= 0)
                => drone'.latitude = bounds.maxLat
          /\ (drone.latitude = bounds.minLat /\ pre'.velY <= 0)
                => drone'.latitude = bounds.minLat]_vars

\* A second manual tick with thrust held: it started on the east edge, its
\* position update went past the edge, and the sample is on the edge with
\* the integrator's velocity kept.
C6_Witness ==
    /\ Ticked
    /\ ticks = MaxStepTicks
    /\ pre.mode = "manual"
    /\ keys.up
    /\ pre.velX > 0
    /\ pre.posLng = bounds.maxLng + pre.velX * PosPerVel
    /\ drone.longitude = bounds.maxLng
    /\ Ended.velX = pre.velX

\* The farthest a sample can move in one step, per axis, position units.
StepReach == (MAX_SPEED + 1) * PosPerVel

\* C7: whenever the mode changes, the restarted loop begins at the position
\* of the last published sample with zero velocity, and the sample itself
\* is unchanged; every tick moves the sample by at most one step's
\* displacement, so no toggle teleports the drone.
C7_ModeSwitchContinuity ==
    [][/\ mode' # mode =>
            /\ loops'[effect'].posLng = drone.longitude
            /\ loops'[effect'].posLat = drone.latitude
            /\ loops'[effect'].velX = 0
            /\ loops'[effect'].velY = 0
            /\ drone' = drone
       /\ ticks' = ticks + 1 =>
            /\ Abs(drone'.longitude - drone.longitude) <= StepReach
            /\ Abs(drone'.latitude - drone.latitude) <= StepReach]_vars

\* Manual mode, the drone away from where it was mounted, and a manual tick
\* that ran at rest from there: the loop was restarted after the drone moved.
C7_Witness ==
    /\ Ticked
    /\ mode = "manual"
    /\ pre.mode = "manual"
    /\ pre.velX = 0 /\ pre.velY = 0
    /\ ticks = MaxTicks
    /\ drone.longitude # center.longitude
    /\ Ended.posLng = drone.longitude
    /\ Ended.posLat = drone.latitude

\* C8: at every moment at most one animation-frame callback is pending and
\* it belongs to the instance started last; after a mode change or an
\* unmount no callback of an older instance is left to run.
C8_SingleStepper ==
    /\ Cardinality(pending) <= 1
    /\ \A p \in pending : p.inst = effect /\ p.id = loops[effect].raf
    /\ ~mounted => pending = {}

\* A tick ran in auto, the mode was then changed, and one callback is
\* pending.
C8_Witness ==
    /\ mounted
    /\ pre.mode = "auto"
    /\ mode = "manual"
    /\ Cardinality(pending) = 1

\* C9: in manual, a key-down of an arrow key sets exactly its flag and a
\* key-up clears exactly its flag, the other three unchanged; a manual step
\* steers and thrusts by the flags as they are when it runs.
C9_ManualSampling ==
    [][/\ \A key \in ArrowKeys :
            /\ (mode = "manual" /\ KeyDown(key))
                  => keys' = [keys EXCEPT ![FlagOf(key)] = TRUE]
            /\ (mode = "manual" /\ KeyUp(key))
                  => keys' = [keys EXCEPT ![FlagOf(key)] = FALSE]
       /\ (ticks' = ticks + 1 /\ pre'.mode = "manual") =>
            /\ pre'.yaw = YawUpdate("manual", loops[pre'.inst].yaw, keys, Scale(pre'.dt))
            /\ [velX |-> pre'.velX, velY |-> pre'.velY]
                 = VelocityUpdate(loops[pre'.inst], pre'.yaw, ManualThrust(keys),
                                  Scale(pre'.dt))]_vars

\* Manual mode after an arrow-key event, ArrowUp down and ArrowDown up, and
\* a manual tick that thrust forward.
C9_Witness ==
    /\ mode = "manual"
    /\ lastDefault = "prevented"
    /\ keys.up /\ ~keys.down
    /\ pre.mode = "manual"
    /\ pre.velY > 0

\* C10: a key-down or key-up received in auto, and one for a key that is not
\* an arrow key in any mode, leaves the four flags unchanged and does not
\* prevent the event's default action.
C10_SamplerInert ==
    [][\A key \in EventKeys :
          ((KeyDown(key) \/ KeyUp(key)) /\ (mode = "auto" \/ key \notin ArrowKeys))
             => (keys' = keys /\ lastDefault' = "allowed")]_vars

\* Auto mode, the last key event left to its default action, no flag set.
C10_Witness ==
    /\ mounted
    /\ mode = "auto"
    /\ lastDefault = "allowed"
    /\ keys = NoKeys

\* Metres (in mm) per velocity unit along each axis at the latitude of pre.
DxMm == Round(pre.velX * Round(METERS_PER_DEG_LAT * CosDeg(LatDeg(pre.posLat)), TrigScale),
              VelUnitsPerDegPerMm)

DyMm == Round(pre.velY * METERS_PER_DEG_LAT, VelUnitsPerDegPerMm)

\* C11: on a tick whose dt is not greater than 0 the published speed is
\* exactly 0; on a tick with dt > 0 it is
\* hypot(velX * metersPerDegLon, velY * metersPerDegLat) / dt.
C11_ZeroDtGuard ==
    Ticked =>
        /\ pre.dt <= 0 => speedMps = 0
        /\ pre.dt > 0 => speedMps = Round(Hypot(DxMm, DyMm) * TimeUnitsPerSec, pre.dt)

\* A tick with dt = 0 while the drone is moving: the quotient would be
\* infinite, the published speed is 0.
C11_Witness ==
    /\ Ticked
    /\ pre.dt = 0
    /\ Speed2(pre) > 0
    /\ speedMps = 0

\* C12: every tick publishes one sample, the position and heading its
\* instance ends the step with, and leaves exactly one callback pending for
\* that instance; no step other than a tick changes the published sample.
C12_PublicationPerTick ==
    [][/\ ticks' = ticks + 1 =>
            /\ drone'.longitude = loops'[pre'.inst].posLng
            /\ drone'.latitude = loops'[pre'.inst].posLat
            /\ drone'.headingDegrees = HeadingDegrees(loops'[pre'.inst].yaw)
            /\ Cardinality({q \in pending' : q.inst = pre'.inst}) = 1
            /\ \A q \in pending' : q.id = loops'[q.inst].raf
       /\ ticks' = ticks => drone' = drone]_vars

\* The last tick of a run moved the drone, published where its instance
\* stands and left one callback pending.
C12_Witness ==
    /\ Ticked
    /\ ticks = MaxTicks
    /\ Speed2(pre) > 0
    /\ drone.longitude = Ended.posLng
    /\ drone.latitude = Ended.posLat
    /\ Cardinality(pending) = 1

\* C13: the mode starts as auto; only a press of the toggle button changes
\* it, and every press switches manual to auto or auto to manual: no tick,
\* key event, pointer event or unmount changes the mode.
C13_ModeController ==
    /\ mode = "auto"
    /\ [][/\ mode' # mode => ToggleMode
          /\ (ticks' # ticks \/ keys' # keys \/ lastDefault' # lastDefault
                \/ mounted' # mounted) => mode' = mode
          /\ ToggleMode => \/ mode = "auto" /\ mode' = "manual"
                           \/ mode = "manual" /\ mode' = "auto"]_vars

\* Auto mode again after a tick that ran in manual: the button was pressed
\* twice.
C13_Witness ==
    /\ mounted
    /\ mode = "auto"
    /\ pre.mode = "manual"

\* The velocity one forward tick at dt = 1/60 produces from rest with the
\* heading of the running instance.
Impulse ==
    VelocityUpdate([velX |-> 0, velY |-> 0], loops[effect].yaw, ACCELERATION, Scale(1))

\* The velocity of the running instance points against its heading.
Reversed ==
    SinDeg(loops[effect].yaw) * loops[effect].velX
        + CosDeg(loops[effect].yaw) * loops[effect].velY < 0

\* C14 (as stated, for N = 1): in manual from rest with a fixed heading,
\* one forward tick and then one backward tick at dt = 1/60 end with a
\* velocity whose magnitude is at most that of the single forward tick.
C14_SymmetryExact ==
    (ticks = 2 /\ keys.down /\ ~keys.up /\ Reversed)
        => Speed2(loops[effect]) <= Speed2(Impulse)

\* C14 (amended): in manual from rest with a fixed heading, at every moment
\* of a forward phase of up to MaxSymN ticks followed by a backward phase,
\* whatever their lengths, the magnitude of the velocity is at most that of
\* a single forward tick from rest plus the rounding of the two rescales
\* compared (two velocity units): the speed never grows.
C14_ManualSymmetry ==
    Speed2(loops[effect])
        <= (Hypot(Impulse.velX, Impulse.velY) + 2) * (Hypot(Impulse.velX, Impulse.velY) + 2)

\* The end of a run: forward ticks, then backward ticks up to twice
\* MaxSymN in all, the drone now moving backward.
C14_Witness ==
    /\ ticks = 2 * MaxSymN
    /\ keys.down /\ ~keys.up
    /\ Reversed
    /\ Speed2(loops[effect]) > 0

\* The largest scale: MAX_DELTA_TIME * FPS_BASELINE.
MaxScale == Scale(MAX_DELTA_TIME)

\* C15 (as stated): for every tick, the first tick of an instance included,
\* 0 <= dt <= MAX_DELTA_TIME and 0 <= scale <= 3.
C15_DeltaTimeClamp ==
    Ticked =>
        /\ 0 <= pre.dt /\ pre.dt <= MAX_DELTA_TIME
        /\ 0 <= Scale(pre.dt) /\ Scale(pre.dt) <= MaxScale

\* C16 (Mission Planner persistence): whenever the planner is reopened, the
\* list it loads from 'mission_waypoints' is the list that was on screen when
\* the planner was last left, also when that list was empty because the last
\* waypoint had been deleted.
C16_PlannerPersistence ==
    [][(~plannerOpen /\ plannerOpen') => waypoints' = leftWith]_vars

NewestFirst ==
    \A i \in 1..Len(logs) : \A j \in 1..Len(logs) :
        i < j => logs[i].timestamp >= logs[j].timestamp

\* C17 (operational log cap): the log never holds more than MAX_LOG_ENTRIES
\* entries and is ordered newest first; a step that changes the log puts the
\* trimmed comment in front of the previous entries, of which the oldest is
\* dropped when the log was full; from a blank comment no step changes the log.
C17_LogCap ==
    /\ [](Len(logs) <= MAX_LOG_ENTRIES /\ NewestFirst)
    /\ [][/\ logs' # logs =>
                /\ Trim(comment) # <<>>
                /\ logs'[1].message = Trim(comment)
                /\ logs'[1].timestamp = now
                /\ Len(logs') = Min(Len(logs) + 1, MAX_LOG_ENTRIES)
                /\ \A i \in 2..Len(logs') : logs'[i] = logs[i - 1]
          /\ Trim(comment) = <<>> => logs' = logs]_vars

\* The log is full, its first entries have been dropped, and a blank
\* comment is in the input.
C17_Witness ==
    /\ Len(logs) = MAX_LOG_ENTRIES
    /\ logs[MAX_LOG_ENTRIES].timestamp > 0
    /\ comment # <<>>
    /\ Trim(comment) = <<>>

\* The velocity is a fixed point of the auto step at dt = 1/60: one more step
\* would leave it as it is.
Steady ==
    LET L == loops[effect]
    IN  /\ Ticked
        /\ VelocityUpdate(L, L.yaw, AutoThrust(L.velX, L.velY), Scale(1))
             = [velX |-> L.velX, velY |-> L.velY]

\* C18 (cruise speed maintained): in auto with dt = 1/60 and no boundary
\* contact, once the velocity is steady its magnitude is the cruise target
\* 0.8 * MAX_SPEED, to within two velocity units.
C18_CruiseMaintained ==
    Steady =>
        Abs(Hypot(loops[effect].velX, loops[effect].velY) - CruiseSpeed) <= 2

\* The running instance is one that has just been created from the sample d
\* in mode m: at rest, its last timestamp read at creation, its position and
\* yaw those of d, and its first frame the only one requested.
Restarted(d, m, lps, pend, i) ==
    /\ DOMAIN lps = {i}
    /\ pend = {[id |-> lps[i].raf, inst |-> i]}
    /\ lps[i].mode = m
    /\ lps[i].velX = 0 /\ lps[i].velY = 0
    /\ lps[i].last = "created"
    /\ lps[i].posLng = d.longitude
    /\ lps[i].posLat = d.latitude
    /\ lps[i].yaw = d.headingDegrees

\* C19 (restart on mode change): a step that changes the mode replaces the
\* running loop instance by a new one started from the last published
\* sample; while the dashboard stays mounted no other step does: a tick
\* advances the same instance, and every other step leaves the instances and
\* the requested frames as they are.
C19_RestartOnModeChange ==
    [][/\ mode' # mode => Restarted(drone, mode', loops', pending', effect')
       /\ (mounted' /\ mode' = mode /\ ticks' # ticks) =>
              /\ effect' = effect
              /\ DOMAIN loops' = DOMAIN loops
              /\ loops'[effect].last = "frame"
       /\ (mounted' /\ mode' = mode /\ ticks' = ticks) =>
              UNCHANGED <<loops, pending, effect>>]_vars

\* A restart in flight: the instance that ran the last tick was moving, and
\* the instance now running was created at rest at the sample it published.
C19_Witness ==
    /\ mounted
    /\ Ticked
    /\ pre.mode # mode
    /\ Speed2(pre) > 0
    /\ drone.longitude # center.longitude
    /\ Restarted(drone, mode, loops, pending, effect)

\* C20 (stuck key): a mode change leaves the four flags as they are, and so
\* does a key-up received in auto; a flag is cleared only by a step taken in
\* manual that is not a tick (a key-up or a pointer release); and a manual
\* tick with dt > 0 thrusts or turns by whichever flag is set.
C20_StuckKey ==
    [][/\ mode' # mode => keys' = keys
       /\ \A key \in ArrowKeys : (mode = "auto" /\ KeyUp(key)) => keys' = keys
       /\ \A f \in Flags :
            (keys[f] /\ ~keys'[f]) =>
                mode = "manual" /\ mode' = "manual" /\ ticks' = ticks
       /\ (ticks' = ticks + 1 /\ pre'.mode = "manual" /\ pre'.dt > 0) =>
            LET L == loops[pre'.inst]
                scale == Scale(pre'.dt)
                v == [velX |-> pre'.velX, velY |-> pre'.velY]
            IN  /\ (keys.up /\ ~keys.down) =>
                      /\ v = VelocityUpdate(L, pre'.yaw, ACCELERATION, scale)
                      /\ Speed2(v) > 0
                /\ (keys.down /\ ~keys.up) =>
                      /\ v = VelocityUpdate(L, pre'.yaw, -ACCELERATION, scale)
                      /\ Speed2(v) > 0
                /\ (keys.right /\ ~keys.left) =>
                      pre'.yaw = L.yaw + YAW_RATE_DEG_PER_FRAME * scale
                /\ (keys.left /\ ~keys.right) =>
                      pre'.yaw = L.yaw - YAW_RATE_DEG_PER_FRAME * scale]_vars

\* Back in manual after the key was released in auto: the forward flag is
\* still set and the manual instance has ticked, with forward thrust.
C20_Witness ==
    /\ mode = "manual"
    /\ lastDefault = "allowed"
    /\ keys.up
    /\ ticks = MaxStuckTicks
    /\ loops[effect].last = "frame"
    /\ pre.mode = "manual"
    /\ Speed2(pre) > 0

\* The state after the integrator as the last tick recorded it.
Integrated(r) ==
    [posLng |-> r.posLng, posLat |-> r.posLat, yaw |-> r.yaw,
     velX |-> r.velX, velY |-> r.velY]

\* The integrated state s1 is r, and the sample auto publishes from it is d.
AutoStepIs(s1, r, d) ==
    s1 = r /\ Sample(BoundaryPolicy("auto", bounds, s1)) = d

\* C21 (auto ignores the controls): an auto step, whatever the four flags
\* are when it runs, gives the integrated state and the sample that the same
\* step gives with no flag set (SpecAuto starts every instance with each of
\* the sixteen flag values); its yaw changes only if an edge check reflected
\* the velocity in that step, and is unchanged otherwise.
C21_AutoIgnoresControls ==
    [][(ticks' = ticks + 1 /\ pre'.mode = "auto") =>
          LET L == loops[pre'.inst]
              scale == Scale(pre'.dt)
              reflected == \/ loops'[pre'.inst].velX # pre'.velX
                           \/ loops'[pre'.inst].velY # pre'.velY
          IN  /\ AutoStepIs(Integrate(L, NoKeys, scale), Integrated(pre'), drone')
              /\ pre'.yaw = L.yaw
              /\ loops'[pre'.inst].yaw # L.yaw => reflected
              /\ ~reflected => loops'[pre'.inst].yaw = L.yaw]_vars

\* An auto step with the forward and left flags set that moved the drone
\* without meeting an edge, its yaw as before the step.
C21_Witness ==
    /\ Ticked
    /\ pre.mode = "auto"
    /\ keys.up /\ keys.left
    /\ Speed2(pre) > 0
    /\ Ended.velX = pre.velX /\ Ended.velY = pre.velY
    /\ Ended.yaw = pre.yaw
    /\ drone.headingDegrees = HeadingDegrees(pre.yaw)

\* The integrated position is at or beyond a longitude edge (a latitude
\* edge) with the velocity component pointing out of the envelope.
OutLng ==
    \/ pre.posLng <= bounds.minLng /\ pre.velX < 0
    \/ pre.posLng >= bounds.maxLng /\ pre.velX > 0

OutLat ==
    \/ pre.posLat <= bounds.minLat /\ pre.velY < 0
    \/ pre.posLat >= bounds.maxLat /\ pre.velY > 0

\* C22 (corner handling): an auto step whose integrated position is at or
\* beyond a longitude edge and a latitude edge, both velocity components
\* pointing outward, ends with both components negated, yaw computed from
\* the doubly reflected velocity, and both coordinates on the edges met.
C22_CornerHandling ==
    (Ticked /\ pre.mode = "auto" /\ OutLng /\ OutLat) =>
        /\ Ended.velX = -pre.velX
        /\ Ended.velY = -pre.velY
        /\ Ended.yaw = Atan2Deg(-pre.velX, -pre.velY)
        /\ Ended.posLng = (IF pre.velX < 0 THEN bounds.minLng ELSE bounds.maxLng)
        /\ Ended.posLat = (IF pre.velY < 0 THEN bounds.minLat ELSE bounds.maxLat)
        /\ drone = Sample(Ended)

\* A step that left the envelope through its north-east corner and was
\* turned back.
C22_Witness ==
    /\ Ticked
    /\ pre.mode = "auto"
    /\ pre.posLng > bounds.maxLng /\ pre.velX > 0
    /\ pre.posLat > bounds.maxLat /\ pre.velY > 0
    /\ Ended.velX < 0 /\ Ended.velY < 0
    /\ drone.longitude = bounds.maxLng /\ drone.latitude = bounds.maxLat

\* C23 (step ordering): the speed published by a tick is the telemetry of
\* the state that results from that tick's boundary policy, whose latitude
\* is the one published in the drone sample.
C23_StepOrdering ==
    Ticked => speedMps = InstSpeed(Ended, pre.dt)

\* C24 (loop liveness and teardown): while the dashboard is mounted exactly
\* one frame is requested, for the running instance, and the loop goes on
\* ticking: it reaches MaxLiveTicks ticks unless the dashboard is unmounted
\* first; once it is unmounted no frame is requested, no tick runs and
\* neither the sample nor the speed changes.
C24_LoopLiveness ==
    /\ <>(~mounted \/ ticks = MaxLiveTicks)
    /\ [](mounted => pending = {[id |-> loops[effect].raf, inst |-> effect]})
    /\ [](~mounted => pending = {})
    /\ [][~mounted => (ticks' = ticks /\ drone' = drone /\ speedMps' = speedMps)]_vars

\* The loop has run all its ticks and the dashboard has then been unmounted:
\* nothing is requested any more.
C24_Witness ==
    /\ ~mounted
    /\ ticks = MaxLiveTicks
    /\ pending = {}
    /\ Speed2(pre) > 0

\* The entries a step appended, when the old log is a prefix of the new one.
Appended == SubSeq(physicsLogs', Len(physicsLogs) + 1, Len(physicsLogs'))

IsPrefix(a, b) == Len(a) <= Len(b) /\ SubSeq(b, 1, Len(a)) = a

Types(log) == [i \in DOMAIN log |-> log[i].type]

\* Between two 'start' entries of a log there is a 'stop' entry.
StartsAreStopped(log) ==
    \A i, j \in DOMAIN log :
        (i < j /\ log[i].type = "start" /\ log[j].type = "start")
            => \E k \in (i + 1)..(j - 1) : log[k].type = "stop"

\* C25: the simulation only appends to the physics log: a frame, a mode
\* change or an unmount leaves the entries that were there in place and in
\* order; a frame appends neither 'start' nor 'stop' nor 'mode_change'; a
\* mode change appends exactly 'stop', 'start' naming the new mode,
\* 'mode_change', in this order; every 'start' in the log is followed by a
\* 'stop' before the next 'start'; ids grow along the log.
C25_LogOrdering ==
    [][/\ (ticks' # ticks \/ mode' # mode \/ mounted' # mounted)
            => IsPrefix(physicsLogs, physicsLogs')
       /\ ticks' # ticks
            => \A i \in DOMAIN Appended :
                  Appended[i].type \in {"started_moving", "stopped", "max_speed", "bounce"}
       /\ mode' # mode
            => /\ Types(Appended) = <<"stop", "start", "mode_change">>
               /\ Appended[2].message = <<"Drone simulation started", mode'>>
       /\ mounted' # mounted => physicsLogs' = physicsLogs
       /\ StartsAreStopped(physicsLogs')
       /\ \A i, j \in DOMAIN physicsLogs' :
              i < j => physicsLogs'[i].id < physicsLogs'[j].id]_vars

\* Two mode changes with frames in between: the log holds the first start,
\* a bounce, and twice stop, start, mode_change, with nothing removed.
C25_Witness ==
    /\ logging
    /\ Len(physicsLogs) = logCount
    /\ mode = "auto"
    /\ \E i \in DOMAIN physicsLogs : physicsLogs[i].type = "bounce"
    /\ \E i, j \in DOMAIN physicsLogs :
          /\ i + 3 <= j
          /\ j + 2 <= Len(physicsLogs)
          /\ Types(SubSeq(physicsLogs, i, i + 2)) = <<"stop", "start", "mode_change">>
          /\ Types(SubSeq(physicsLogs, j, j + 2)) = <<"stop", "start", "mode_change">>
          /\ physicsLogs[i + 1].message = <<"Drone simulation started", "manual">>
          /\ physicsLogs[j + 1].message = <<"Drone simulation started", "auto">>


FiringsOf(id, kind) == {i \in DOMAIN fired : fired[i].id = id /\ fired[i].kind = kind}

\* C26: every entry handed to the map gets one fade timer and one removal
\* timer; its fade timer fires no earlier than 3000 ms and its removal timer
\* no earlier than 3500 ms after the entry's timestamp; onLogRemove is called
\* at most once for an entry, and no fade of an entry follows its removal.
C26_ToastLifecycle ==
    /\ \A q \in timerPairs : q.pair = 1
    /\ \A i \in DOMAIN fired :
          /\ fired[i].kind = "fade" => fired[i].at >= fired[i].timestamp + FadeAfter
          /\ fired[i].kind = "remove" => fired[i].at >= fired[i].timestamp + RemoveAfter
          /\ Cardinality(FiringsOf(fired[i].id, fired[i].kind)) = 1
    /\ \A i, j \in DOMAIN fired :
          (i < j /\ fired[i].id = fired[j].id /\ fired[i].kind = "remove")
              => fired[j].kind # "fade"

\* The last n elements of a sequence, all of them if there are fewer.
Latest(q, n) == IF Len(q) > n THEN SubSeq(q, Len(q) - n + 1, Len(q)) ELSE q

Differs(a, b) ==
    \/ a[1] - b[1] > MIN_DISTANCE_THRESHOLD \/ b[1] - a[1] > MIN_DISTANCE_THRESHOLD
    \/ a[2] - b[2] > MIN_DISTANCE_THRESHOLD \/ b[2] - a[2] > MIN_DISTANCE_THRESHOLD

\* C27: the trace never holds more than MAX_TRACE_POINTS points; the first
\* sample is recorded; a later sample is appended when it differs from the
\* last recorded point by more than MIN_DISTANCE_THRESHOLD in longitude or in
\* latitude, and then the trace is the latest MAX_TRACE_POINTS points of the
\* old trace followed by the sample; otherwise the trace is unchanged.
C27_TraceBound ==
    [][LET pt == <<drone'.longitude, drone'.latitude>>
       IN  /\ Len(droneTrace') <= MAX_TRACE_POINTS
           /\ droneTrace = <<>> => droneTrace' = <<pt>>
           /\ (droneTrace # <<>> /\ Differs(droneTrace[Len(droneTrace)], pt))
                 => droneTrace' = Latest(droneTrace \o <<pt>>, MAX_TRACE_POINTS)
           /\ (droneTrace # <<>> /\ ~Differs(droneTrace[Len(droneTrace)], pt))
                 => droneTrace' = droneTrace]_vars

\* The trace is full, its oldest points have been dropped, and the latest
\* sample, a threshold away from the last recorded point on both axes, is
\* not in it.
C27_Witness ==
    /\ Len(droneTrace) = MAX_TRACE_POINTS
    /\ droneTrace[1][1] > 2 * MIN_DISTANCE_THRESHOLD
    /\ drone.longitude = droneTrace[MAX_TRACE_POINTS][1] + MIN_DISTANCE_THRESHOLD
    /\ drone.latitude = droneTrace[MAX_TRACE_POINTS][2] + MIN_DISTANCE_THRESHOLD

\* C28: a write made by the debounce timer happens no earlier than debounceMs
\* after the last call of setValue and writes that call's value; an unmount
\* while a write is pending cancels the timer and writes the value of the
\* last call; after unmount the stored value is the last value set.
C28_DebouncedPersistence ==
    [][/\ (storageItem' # storageItem /\ hookMounted')
            => /\ now >= lastSet.at + DebounceUnits
               /\ storageItem' = Stringify(lastSet.value)
       /\ (hookMounted /\ ~hookMounted' /\ debounceTimer.live)
            => /\ ~debounceTimer'.live
               /\ storageItem' = Stringify(lastSet.value)
       /\ (~hookMounted' /\ lastSet.calls > 0)
            => storageItem' = Stringify(lastSet.value)]_vars

\* At the end of an auto step no velocity component points out of the
\* envelope through an edge the published position lies on.
NoOutwardVelocity ==
    (Ticked /\ pre.mode = "auto") =>
        /\ drone.longitude = bounds.minLng => Ended.velX >= 0
        /\ drone.longitude = bounds.maxLng => Ended.velX <= 0
        /\ drone.latitude = bounds.minLat => Ended.velY >= 0
        /\ drone.latitude = bounds.maxLat => Ended.velY <= 0

\* The edges the sample d lies on.
EdgesOf(d) ==
    {e \in {"west", "east", "south", "north"} :
        \/ e = "west" /\ d.longitude = bounds.minLng
        \/ e = "east" /\ d.longitude = bounds.maxLng
        \/ e = "south" /\ d.latitude = bounds.minLat
        \/ e = "north" /\ d.latitude = bounds.maxLat}

Across(e, v) == IF e \in {"west", "east"} THEN v.velX ELSE v.velY

C30_BoundedDisplacement ==
    [][ticks' = ticks + 1 =>
          /\ Abs(drone'.longitude - drone.longitude) <= MAX_SPEED * PosPerVel
          /\ Abs(drone'.latitude - drone.latitude) <= MAX_SPEED * PosPerVel]_vars

\* The second tick of an instance, a frame MAX_DELTA_TIME late or more, at
\* full speed eastwards and clear of the edges: the longitude has advanced
\* by MAX_SPEED exactly.
C30_Witness ==
    /\ Ticked
    /\ ticks = 2
    /\ pre.dt = MAX_DELTA_TIME
    /\ pre.velX = MAX_SPEED
    /\ pre.posLng < bounds.maxLng - BOUNDARY_MARGIN
    /\ drone.longitude = pre.posLng
    /\ Ended.velX = MAX_SPEED

====
